---- MODULE Spec2Model ----
(***************************************************************************)
(* A model of the StringPipeline repository: the bounded ring-buffer queue *)
(* (queue.c), the plugin stage worker (plugins/lower.c and the plugin      *)
(* template of build.sh) and the assembler main.c generated by build.sh.   *)
(*                                                                         *)
(* Threads are integers.  Every thread has a position in its own top-level *)
(* function (pc) and, while it is inside a queue function, a position in   *)
(* that function (kpc) and a call frame (frame).  A queue is a record with *)
(* the fields of queue_t; the mutex is the id of its holder and each       *)
(* condition variable is the set of threads blocked in pthread_cond_wait.  *)
(***************************************************************************)
EXTENDS Integers, Sequences, FiniteSets, TLC

(***************************************************************************)
(* Bounds of the queue harness (threads calling queue functions directly). *)
(***************************************************************************)
MaxThreads == 2
MaxCalls == 4
MaxCap == 2
MaxItems == 3
MaxFairThreads == 3
MaxFairCalls == 3
MaxStages == 2
MaxLines == 2
MaxPipeCap == 1
MaxAllocFailures == 1
MaxProducers == 2
MaxProducerItems == 2
MaxMonThreads == 3
MaxRounds == 2
MaxSignals == 2
MaxSpurious == 1
MaxStopItems == 2
MaxBarThreads == 3
MaxGenerations == 3

(***************************************************************************)
(* Program constants and values.                                           *)
(***************************************************************************)
QUEUE_SHUTDOWN == -2
PUSH_ENOMEM == -1
Unlocked == 0

\* A pointer value different from every string (strings are sequences of
\* one-character strings).
NULL == <<"NULL">>

VARIABLES
    queues,     \* queue index -> queue_t record
    kpc,        \* thread -> position inside the queue function it is in
    frame,      \* thread -> arguments, locals and result of that call
    pc,         \* thread -> position in the thread's own function
    th,         \* thread -> locals of the thread's own function
    hist,       \* queue index -> history of the queue (for the properties)
    env         \* the process: standard input and output, plugins, exit

vars == <<queues, kpc, frame, pc, th, hist, env>>

Threads == DOMAIN kpc
QueueIds == DOMAIN queues

(***************************************************************************)
(* queue_t and queue_init.                                                 *)
(***************************************************************************)
queue_init(capacity) ==
    [ buffer    |-> [i \in 0..(capacity - 1) |-> NULL],
      capacity  |-> capacity,
      size      |-> 0,
      head      |-> 0,
      tail      |-> 0,
      shutdown  |-> 0,
      mutex     |-> Unlocked,
      not_full  |-> {},
      not_empty |-> {} ]

NoFrame == [fn |-> "none", queue |-> 0, str |-> NULL, str_copy |-> NULL,
            out_str |-> NULL, ret |-> 0, closedAtEntry |-> FALSE,
            atClose |-> "none"]

\* The harness runs no pipeline.
NoEnv == [exit |-> "none", nfail |-> 0]

NoHist == [pushed |-> <<>>, popped |-> <<>>, closed |-> FALSE,
           atClose |-> <<>>, popsAtClose |-> 0]

\* The items of queue record Q from head, in ring order.
RingItems(Q) ==
    [i \in 1..Q.size |-> Q.buffer[(Q.head + i - 1) % Q.capacity]]

\* An index that runs past the end of the ring.
NextIndex_NoWrap(i, capacity) == i + 1

\* (i + 1) % queue->capacity, lines 121 and 157.
NextIndex(i, capacity) == (i + 1) % capacity

(***************************************************************************)
(* pthread primitives on a queue record.                                   *)
(***************************************************************************)
\* A mutex that excludes nobody.
MutexFree_Always(q) == TRUE

MutexFree(q) == queues[q].mutex = Unlocked

\* malloc, calloc and strdup may return NULL; the runs looked at have at most
\* MaxAllocFailures such failures.
CanFail == env.nfail < MaxAllocFailures

Failed == [env EXCEPT !.nfail = @ + 1]

\* A signal that wakes nobody.
SignalNobody(waiting) == {{}}

\* A signal that wakes every blocked thread.
SignalEverybody(waiting) == {waiting}

\* pthread_cond_signal: one of the blocked threads, if any, stops waiting.
\* It still has to re-acquire the mutex before pthread_cond_wait returns.
SignalChoices(waiting) ==
    IF waiting = {} THEN {{}} ELSE {{w} : w \in waiting}

\* A shutdown that signals where it should broadcast.
BroadcastAsSignal(waiting) == SignalChoices(waiting)

\* A shutdown that wakes nobody.
BroadcastNobody(waiting) == {{}}

\* pthread_cond_broadcast: every blocked thread stops waiting.
BroadcastChoices(waiting) == {waiting}

Woken(k) ==
    CASE k = "push_parked" -> "push_woken"
      [] k = "pop_parked"  -> "pop_woken"
      [] OTHER -> k

Wake(woken) == [t \in Threads |-> IF t \in woken THEN Woken(kpc[t]) ELSE kpc[t]]

\* An early return that forgets pthread_mutex_unlock.
Unlock_Keep(Q) == Q

\* A thread leaves a queue function: the mutex is released and the result set.
Unlock(Q) == [Q EXCEPT !.mutex = Unlocked]

Return(t, ret, out) ==
    [frame EXCEPT ![t].ret = ret, ![t].out_str = out]

(***************************************************************************)
(* queue_push (queue.c lines 86-129).                                      *)
(***************************************************************************)
\* A wait loop that lets one item too many in.
PushMustWait_OffByOne(Q) == Q.size > Q.capacity /\ Q.shutdown = 0

\* The loop condition of line 101.
PushMustWait(Q) == Q.size >= Q.capacity /\ Q.shutdown = 0

\* A queue_push that never looks at the shutdown flag.
PushSeesShutdown_Never(Q) == FALSE

\* A queue_push that does not look at the flag again after its wait.
PushSeesShutdownAfterWait_Never(Q) == FALSE

\* The shutdown test, if (queue->shutdown), on entry (line 95).
PushSeesShutdown(Q) == Q.shutdown # 0

\* The same test after the wait loop (line 106).
PushSeesShutdownAfterWait(Q) == PushSeesShutdown(Q)

\* What queue_push returns when it sees the shutdown flag (lines 97, 108).
PushShutdownResult == QUEUE_SHUTDOWN

\* Lines 120-122: store at the tail, advance the tail, count the item.
Enqueue(Q, s) ==
    [Q EXCEPT !.buffer[Q.tail] = s,
              !.tail = NextIndex(Q.tail, Q.capacity),
              !.size = Q.size + 1]

push_lock(t) ==
    LET q == frame[t].queue IN
    /\ kpc[t] = "push_lock"
    /\ MutexFree(q)
    /\ queues' = [queues EXCEPT ![q].mutex = t]
    /\ kpc' = [kpc EXCEPT ![t] = "push_chk"]
    /\ UNCHANGED <<frame, pc, th, hist, env>>

push_chk(t) ==
    LET q == frame[t].queue IN
    /\ kpc[t] = "push_chk"
    /\ IF PushSeesShutdown(queues[q])
       THEN /\ queues' = [queues EXCEPT ![q] = Unlock(@)]
            /\ frame' = Return(t, PushShutdownResult, frame[t].out_str)
            /\ kpc' = [kpc EXCEPT ![t] = "done"]
       ELSE /\ kpc' = [kpc EXCEPT ![t] = "push_while"]
            /\ UNCHANGED <<queues, frame>>
    /\ UNCHANGED <<pc, th, hist, env>>

push_while(t) ==
    LET q == frame[t].queue IN
    /\ kpc[t] = "push_while"
    /\ IF PushMustWait(queues[q])
       THEN \* pthread_cond_wait: release the mutex and block on not_full
            /\ queues' = [queues EXCEPT ![q].mutex = Unlocked,
                                        ![q].not_full = @ \cup {t}]
            /\ kpc' = [kpc EXCEPT ![t] = "push_parked"]
       ELSE /\ kpc' = [kpc EXCEPT ![t] = "push_chk2"]
            /\ UNCHANGED queues
    /\ UNCHANGED <<frame, pc, th, hist, env>>

\* pthread_cond_wait returns: the woken thread re-acquires the mutex and
\* evaluates the loop condition again.
push_woken(t) ==
    LET q == frame[t].queue IN
    /\ kpc[t] = "push_woken"
    /\ MutexFree(q)
    /\ queues' = [queues EXCEPT ![q].mutex = t]
    /\ kpc' = [kpc EXCEPT ![t] = "push_while"]
    /\ UNCHANGED <<frame, pc, th, hist, env>>

push_chk2(t) ==
    LET q == frame[t].queue IN
    /\ kpc[t] = "push_chk2"
    /\ IF PushSeesShutdownAfterWait(queues[q])
       THEN /\ queues' = [queues EXCEPT ![q] = Unlock(@)]
            /\ frame' = Return(t, PushShutdownResult, frame[t].out_str)
            /\ kpc' = [kpc EXCEPT ![t] = "done"]
       ELSE /\ kpc' = [kpc EXCEPT ![t] = "push_copy"]
            /\ UNCHANGED <<queues, frame>>
    /\ UNCHANGED <<pc, th, hist, env>>

\* A failure path that has already counted the item.
FailedCopy_Counted(Q) == [Q EXCEPT !.mutex = Unlocked, !.size = @ + 1]

\* Lines 113-116: the copy failed; the mutex is released, nothing is stored.
FailedCopy(Q) == Unlock(Q)

\* Lines 112-117: strdup either returns a copy or NULL.
push_copy(t) ==
    LET q == frame[t].queue IN
    /\ kpc[t] = "push_copy"
    /\ \/ /\ frame' = [frame EXCEPT ![t].str_copy = frame[t].str]
          /\ kpc' = [kpc EXCEPT ![t] = "push_enqueue"]
          /\ UNCHANGED <<queues, env>>
       \/ /\ CanFail
          /\ env' = Failed
          /\ queues' = [queues EXCEPT ![q] = FailedCopy(@)]
          /\ frame' = Return(t, PUSH_ENOMEM, frame[t].out_str)
          /\ kpc' = [kpc EXCEPT ![t] = "done"]
    /\ UNCHANGED <<pc, th, hist>>

push_enqueue(t) ==
    LET q == frame[t].queue IN
    /\ kpc[t] = "push_enqueue"
    /\ queues' = [queues EXCEPT ![q] = Enqueue(@, frame[t].str_copy)]
    /\ hist' = [hist EXCEPT ![q].pushed = Append(@, frame[t].str_copy)]
    /\ kpc' = [kpc EXCEPT ![t] = "push_signal"]
    /\ UNCHANGED <<frame, pc, th, env>>

\* Lines 125-128: signal not_empty, unlock, return 0.
push_signal(t) ==
    LET q == frame[t].queue IN
    /\ kpc[t] = "push_signal"
    /\ \E W \in SignalChoices(queues[q].not_empty) :
          /\ queues' = [queues EXCEPT ![q].not_empty = @ \ W,
                                      ![q].mutex = Unlocked]
          /\ kpc' = [Wake(W) EXCEPT ![t] = "done"]
    /\ frame' = Return(t, 0, frame[t].out_str)
    /\ UNCHANGED <<pc, th, hist, env>>

(***************************************************************************)
(* queue_pop (queue.c lines 134-165).                                      *)
(***************************************************************************)
\* A loop that goes on waiting on an empty queue that has been shut down.
PopMustWait_IgnoreShutdown(Q) == Q.size = 0

\* A pop that does not wait for an item.
PopMustWait_Never(Q) == FALSE

\* The loop condition of line 143.
PopMustWait(Q) == Q.size = 0 /\ Q.shutdown = 0

\* A pop that reports the end as soon as the flag is set.
PopSeesEnd_IgnoreSize(Q) == Q.shutdown # 0

\* The test of line 148.
PopSeesEnd(Q) == Q.shutdown # 0 /\ Q.size = 0

\* A pop that does not advance the head.
Dequeue_KeepHead(Q) ==
    [Q EXCEPT !.buffer[Q.head] = NULL,
              !.size = Q.size - 1]

\* Lines 156-158: clear the head slot, advance the head, uncount the item.
Dequeue(Q) ==
    [Q EXCEPT !.buffer[Q.head] = NULL,
              !.head = NextIndex(Q.head, Q.capacity),
              !.size = Q.size - 1]

pop_lock(t) ==
    LET q == frame[t].queue IN
    /\ kpc[t] = "pop_lock"
    /\ MutexFree(q)
    /\ queues' = [queues EXCEPT ![q].mutex = t]
    /\ kpc' = [kpc EXCEPT ![t] = "pop_while"]
    /\ UNCHANGED <<frame, pc, th, hist, env>>

pop_while(t) ==
    LET q == frame[t].queue IN
    /\ kpc[t] = "pop_while"
    /\ IF PopMustWait(queues[q])
       THEN \* pthread_cond_wait: release the mutex and block on not_empty
            /\ queues' = [queues EXCEPT ![q].mutex = Unlocked,
                                        ![q].not_empty = @ \cup {t}]
            /\ kpc' = [kpc EXCEPT ![t] = "pop_parked"]
       ELSE /\ kpc' = [kpc EXCEPT ![t] = "pop_chk"]
            /\ UNCHANGED queues
    /\ UNCHANGED <<frame, pc, th, hist, env>>

pop_woken(t) ==
    LET q == frame[t].queue IN
    /\ kpc[t] = "pop_woken"
    /\ MutexFree(q)
    /\ queues' = [queues EXCEPT ![q].mutex = t]
    /\ kpc' = [kpc EXCEPT ![t] = "pop_while"]
    /\ UNCHANGED <<frame, pc, th, hist, env>>

\* Lines 148-152: shut down and drained: unlock, *out_str = NULL, return.
pop_chk(t) ==
    LET q == frame[t].queue IN
    /\ kpc[t] = "pop_chk"
    /\ IF PopSeesEnd(queues[q])
       THEN /\ queues' = [queues EXCEPT ![q] = Unlock(@)]
            /\ frame' = Return(t, QUEUE_SHUTDOWN, NULL)
            /\ kpc' = [kpc EXCEPT ![t] = "done"]
       ELSE /\ kpc' = [kpc EXCEPT ![t] = "pop_dequeue"]
            /\ UNCHANGED <<queues, frame>>
    /\ UNCHANGED <<pc, th, hist, env>>

\* Lines 155-158.
pop_dequeue(t) ==
    LET q == frame[t].queue
        item == queues[q].buffer[queues[q].head] IN
    /\ kpc[t] = "pop_dequeue"
    /\ frame' = [frame EXCEPT ![t].out_str = item]
    /\ queues' = [queues EXCEPT ![q] = Dequeue(@)]
    /\ hist' = [hist EXCEPT ![q].popped = Append(@, item)]
    /\ kpc' = [kpc EXCEPT ![t] = "pop_signal"]
    /\ UNCHANGED <<pc, th, env>>

\* Lines 161-164: signal not_full, unlock, return 0.
pop_signal(t) ==
    LET q == frame[t].queue IN
    /\ kpc[t] = "pop_signal"
    /\ \E W \in SignalChoices(queues[q].not_full) :
          /\ queues' = [queues EXCEPT ![q].not_full = @ \ W,
                                      ![q].mutex = Unlocked]
          /\ kpc' = [Wake(W) EXCEPT ![t] = "done"]
    /\ frame' = Return(t, 0, frame[t].out_str)
    /\ UNCHANGED <<pc, th, hist, env>>

(***************************************************************************)
(* queue_shutdown (queue.c lines 170-186).                                 *)
(***************************************************************************)
\* A shutdown that flips the flag.
SetShutdown_Toggle(Q) == [Q EXCEPT !.shutdown = 1 - Q.shutdown]

\* A shutdown that also discards what the queue holds.
SetShutdown_Drain(Q) == [Q EXCEPT !.shutdown = 1, !.size = 0, !.tail = Q.head]

\* Line 178.
SetShutdown(Q) == [Q EXCEPT !.shutdown = 1]

\* The threads that are inside pthread_cond_wait of queue q: blocked, or
\* woken and not yet holding the mutex again.
InWait(q) ==
    {t \in Threads : /\ frame[t].queue = q
                     /\ kpc[t] \in {"push_parked", "push_woken",
                                     "pop_parked", "pop_woken"}}

sd_lock(t) ==
    LET q == frame[t].queue IN
    /\ kpc[t] = "sd_lock"
    /\ MutexFree(q)
    /\ queues' = [queues EXCEPT ![q].mutex = t]
    /\ kpc' = [kpc EXCEPT ![t] = "sd_set"]
    /\ UNCHANGED <<frame, pc, th, hist, env>>

sd_set(t) ==
    LET q == frame[t].queue IN
    /\ kpc[t] = "sd_set"
    /\ queues' = [queues EXCEPT ![q] = SetShutdown(@)]
    /\ kpc' = [kpc EXCEPT ![t] = "sd_broadcast"]
    \* history: the items held at the first shutdown, and who was waiting
    /\ hist' = IF hist[q].closed THEN hist
               ELSE [hist EXCEPT ![q].closed = TRUE,
                                 ![q].atClose = RingItems(queues[q]),
                                 ![q].popsAtClose = Len(hist[q].popped)]
    /\ frame' = [u \in Threads |->
                   IF u \in InWait(q) /\ ~hist[q].closed
                   THEN [frame[u] EXCEPT !.atClose = kpc[u]]
                   ELSE frame[u]]
    /\ UNCHANGED <<pc, th, env>>

\* Lines 181-185: broadcast both conditions, unlock, return 0.
sd_broadcast(t) ==
    LET q == frame[t].queue IN
    /\ kpc[t] = "sd_broadcast"
    /\ \E WF \in BroadcastChoices(queues[q].not_full),
          WE \in BroadcastChoices(queues[q].not_empty) :
          /\ queues' = [queues EXCEPT ![q].not_full = @ \ WF,
                                      ![q].not_empty = @ \ WE,
                                      ![q].mutex = Unlocked]
          /\ kpc' = [Wake(WF \cup WE) EXCEPT ![t] = "done"]
    /\ frame' = Return(t, 0, frame[t].out_str)
    /\ UNCHANGED <<pc, th, hist, env>>

(***************************************************************************)
(* POSIX lets pthread_cond_wait return without a signal.                   *)
(***************************************************************************)
spurious_wakeup(t) ==
    LET q == frame[t].queue IN
    /\ kpc[t] \in {"push_parked", "pop_parked"}
    /\ queues' = [queues EXCEPT ![q].not_full = @ \ {t},
                                ![q].not_empty = @ \ {t}]
    /\ kpc' = [kpc EXCEPT ![t] = Woken(kpc[t])]
    /\ UNCHANGED <<frame, pc, th, hist, env>>

\* One step of thread t inside a queue function.
PushStep(t) ==
    \/ push_lock(t) \/ push_chk(t) \/ push_while(t) \/ push_woken(t)
    \/ push_chk2(t) \/ push_copy(t) \/ push_enqueue(t) \/ push_signal(t)

PopStep(t) ==
    \/ pop_lock(t) \/ pop_while(t) \/ pop_woken(t) \/ pop_chk(t)
    \/ pop_dequeue(t) \/ pop_signal(t)

ShutdownStep(t) == sd_lock(t) \/ sd_set(t) \/ sd_broadcast(t)

QueueStep(t) == PushStep(t) \/ PopStep(t) \/ ShutdownStep(t)

\* The call itself: the arguments are set and the function entered.
Call(t, fn, q, s) ==
    /\ frame' = [frame EXCEPT ![t] =
                   [NoFrame EXCEPT !.fn = fn, !.queue = q, !.str = s,
                                   !.closedAtEntry = hist[q].closed]]
    /\ kpc' = [kpc EXCEPT ![t] =
                 CASE fn = "push" -> "push_lock"
                   [] fn = "pop" -> "pop_lock"
                   [] fn = "shutdown" -> "sd_lock"]

(***************************************************************************)
(* Harness: threads that call the queue functions directly on queue 0, as  *)
(* the unit tests of tests/test_queue.c do.  A thread with role "any"      *)
(* chooses each call freely; a "producer" pushes and a "consumer" pops.    *)
(***************************************************************************)
Letters == <<"a", "b", "c", "d", "e", "f", "g", "h">>
Digits == <<"1", "2", "3", "4", "5", "6", "7", "8", "9">>

\* The string thread t pushes in its k-th call.
ItemOf(t, k) == <<Letters[t], Digits[k]>>

RECURSIVE SumCalls(_)
SumCalls(S) ==
    IF S = {} THEN 0
    ELSE LET t == CHOOSE x \in S : TRUE
         IN th[t].ncalls + SumCalls(S \ {t})

CanCall(t) ==
    /\ pc[t] = "idle"
    /\ th[t].ncalls < th[t].quota
    /\ SumCalls(Threads) < th[t].budget

\* quota: the calls the thread makes; budget: the calls all threads make.
Caller(role, quota, budget) ==
    [role |-> role, quota |-> quota, budget |-> budget, ncalls |-> 0,
     sent |-> <<>>, received |-> <<>>]

call_push(t) ==
    /\ CanCall(t)
    /\ th[t].role \in {"any", "producer"}
    /\ Call(t, "push", 0, ItemOf(t, th[t].ncalls + 1))
    /\ pc' = [pc EXCEPT ![t] = "calling"]
    /\ th' = [th EXCEPT ![t].ncalls = @ + 1]
    /\ UNCHANGED <<queues, hist, env>>

call_pop(t) ==
    /\ CanCall(t)
    /\ th[t].role \in {"any", "consumer"}
    /\ Call(t, "pop", 0, NULL)
    /\ pc' = [pc EXCEPT ![t] = "calling"]
    /\ th' = [th EXCEPT ![t].ncalls = @ + 1]
    /\ UNCHANGED <<queues, hist, env>>

call_shutdown(t) ==
    /\ CanCall(t)
    /\ th[t].role \in {"any", "closer"}
    /\ Call(t, "shutdown", 0, NULL)
    /\ pc' = [pc EXCEPT ![t] = "calling"]
    /\ th' = [th EXCEPT ![t].ncalls = @ + 1]
    /\ UNCHANGED <<queues, hist, env>>

\* The caller takes the result: a test keeps what it pushed and what it got.
call_return(t) ==
    /\ pc[t] = "calling"
    /\ kpc[t] = "done"
    /\ th' = [th EXCEPT
                ![t].sent = IF th[t].role = "producer" /\ frame[t].ret = 0
                            THEN Append(@, frame[t].str) ELSE @,
                ![t].received = IF th[t].role = "consumer" /\ frame[t].ret = 0
                                THEN Append(@, frame[t].out_str) ELSE @]
    /\ pc' = [pc EXCEPT ![t] = "idle"]
    /\ kpc' = [kpc EXCEPT ![t] = "none"]
    /\ UNCHANGED <<queues, frame, hist, env>>

HarnessInit(n, callers) ==
    /\ \E c \in 1..MaxCap : queues = [q \in {0} |-> queue_init(c)]
    /\ kpc = [t \in 1..n |-> "none"]
    /\ frame = [t \in 1..n |-> NoFrame]
    /\ pc = [t \in 1..n |-> "idle"]
    /\ th = callers
    /\ hist = [q \in {0} |-> NoHist]
    /\ env = NoEnv

Init ==
    HarnessInit(MaxThreads,
                [t \in 1..MaxThreads |-> Caller("any", MaxCalls, MaxCalls)])

HarnessThreads == 1..MaxThreads

Next ==
    \E t \in HarnessThreads :
        \/ call_push(t) \/ call_pop(t) \/ call_shutdown(t) \/ call_return(t)
        \/ QueueStep(t)
        \/ spurious_wakeup(t)

Spec == Init /\ [][Next]_vars

(***************************************************************************)
(* One producer (thread 1) pushing k strings and one consumer (thread 2)   *)
(* popping k times, as test_single_producer_consumer does.                 *)
(***************************************************************************)
Producer == 1
Consumer == 2

InitSPSC ==
    \E k \in 0..MaxItems :
        HarnessInit(2, [t \in 1..2 |->
                          IF t = Producer THEN Caller("producer", k, 2 * k)
                          ELSE Caller("consumer", k, 2 * k)])

NextSPSC ==
    \/ call_push(Producer) \/ PushStep(Producer)
    \/ call_pop(Consumer) \/ PopStep(Consumer)
    \/ \E t \in 1..2 : call_return(t) \/ spurious_wakeup(t)

SpecSPSC == InitSPSC /\ [][NextSPSC]_vars

(***************************************************************************)
(* The producer and the consumer under fair scheduling: a thread that can  *)
(* again and again take a step inside queue_push or queue_pop eventually   *)
(* takes it (it is not starved of the mutex by the other's spurious        *)
(* wakeups), as test_queue_blocking_when_full and                          *)
(* test_queue_blocking_when_empty expect when they join the blocked thread. *)
(***************************************************************************)
SpecSPSCFair ==
    /\ InitSPSC
    /\ [][NextSPSC]_vars
    /\ SF_vars(PushStep(Producer))
    /\ SF_vars(PopStep(Consumer))

(***************************************************************************)
(* MaxProducers producers pushing k strings each and one consumer popping  *)
(* as many times as they push together, as                                 *)
(* test_multiple_producers_single_consumer does.                           *)
(***************************************************************************)
Producers == 1..MaxProducers
TheConsumer == MaxProducers + 1

InitMPSC ==
    \E k \in 0..MaxProducerItems :
        HarnessInit(MaxProducers + 1,
                    [t \in 1..(MaxProducers + 1) |->
                       IF t \in Producers
                       THEN Caller("producer", k, 2 * MaxProducers * k)
                       ELSE Caller("consumer", MaxProducers * k,
                                   2 * MaxProducers * k)])

NextMPSC ==
    \/ \E t \in Producers : call_push(t) \/ PushStep(t)
    \/ call_pop(TheConsumer) \/ PopStep(TheConsumer)
    \/ \E t \in 1..(MaxProducers + 1) : call_return(t) \/ spurious_wakeup(t)

SpecMPSC == InitMPSC /\ [][NextMPSC]_vars

(***************************************************************************)
(* The harness under fair scheduling: a thread that can take a step inside *)
(* a queue function eventually takes it.  Callers need not call again and  *)
(* spurious wakeups need not happen.                                       *)
(***************************************************************************)
FairThreads == 1..MaxFairThreads

InitFair ==
    HarnessInit(MaxFairThreads,
                [t \in FairThreads |-> Caller("any", MaxFairCalls, MaxFairCalls)])

NextFair ==
    \E t \in FairThreads :
        \/ call_push(t) \/ call_pop(t) \/ call_shutdown(t) \/ call_return(t)
        \/ QueueStep(t)
        \/ spurious_wakeup(t)

SpecFair ==
    /\ InitFair
    /\ [][NextFair]_vars
    /\ \A t \in FairThreads : WF_vars(QueueStep(t))

(***************************************************************************)
(* Strings and the reserved transforms (build.sh lines 68-137; lower.c     *)
(* lines 21-29).  A string is a sequence of one-character strings.         *)
(***************************************************************************)
LowerChars == <<"a", "b", "e", "f", "i", "p", "r", "s", "u", "x">>
UpperChars == <<"A", "B", "E", "F", "I", "P", "R", "S", "U", "X">>

toupper(c) ==
    IF \E i \in DOMAIN LowerChars : LowerChars[i] = c
    THEN UpperChars[CHOOSE i \in DOMAIN LowerChars : LowerChars[i] = c]
    ELSE c

tolower(c) ==
    IF \E i \in DOMAIN UpperChars : UpperChars[i] = c
    THEN LowerChars[CHOOSE i \in DOMAIN UpperChars : UpperChars[i] = c]
    ELSE c

isspace(c) == c \in {" ", "\t", "\n"}

transform_upper(s) == [i \in 1..Len(s) |-> toupper(s[i])]

transform_lower(s) == [i \in 1..Len(s) |-> tolower(s[i])]

\* The swaps of i and len-1-i for i < len/2.
transform_reverse(s) == [i \in 1..Len(s) |-> s[Len(s) + 1 - i]]

\* start skips the leading whitespace; end steps back from the last
\* character while it is whitespace and end > start.
transform_trim(s) ==
    LET n == Len(s)
        start == IF \A i \in 1..n : isspace(s[i]) THEN n + 1
                 ELSE CHOOSE i \in 1..n :
                        /\ ~isspace(s[i])
                        /\ \A j \in 1..(i - 1) : isspace(s[j])
        end == IF start >= n THEN n
               ELSE CHOOSE i \in start..n :
                      /\ (i = start \/ ~isspace(s[i]))
                      /\ \A j \in (i + 1)..n : isspace(s[j])
    IN SubSeq(s, start, end)

PREFIX == <<"P", "R", "E", "F", "I", "X", ":">>
SUFFIX == <<":", "S", "U", "F", "F", "I", "X">>

transform_prefix(s) == PREFIX \o s

transform_suffix(s) == s \o SUFFIX

PluginNames == {"upper", "lower", "reverse", "trim", "prefix", "suffix"}

\* The function the plugin computes when every allocation succeeds.
Transform(name, s) ==
    CASE name = "upper"   -> transform_upper(s)
      [] name = "lower"   -> transform_lower(s)
      [] name = "reverse" -> transform_reverse(s)
      [] name = "trim"    -> transform_trim(s)
      [] name = "prefix"  -> transform_prefix(s)
      [] name = "suffix"  -> transform_suffix(s)

\* What transform_<name>(s) can return: NULL when strdup fails (line 69-70);
\* the result; and for prefix and suffix the plain copy when the second
\* allocation fails (build.sh lines 115-121, 125-131).
TransformResults(name, s) ==
    {NULL, Transform(name, s)}
        \cup (IF name \in {"prefix", "suffix"} THEN {s} ELSE {})

(***************************************************************************)
(* The stage worker: process_thread of the plugin template (build.sh lines *)
(* 139-161; plugins/lower.c lines 31-53).  Stage i (counted from 0, as     *)
(* main does) runs in thread i + 1, pops queue i and pushes queue i + 1.   *)
(***************************************************************************)
Stages == 1..MaxStages
Reader == MaxStages + 1
Writer == MaxStages + 2
Main == MaxStages + 3
PipeThreads == 1..(MaxStages + 3)

StageThread(i) == i + 1
StageOf(t) == t - 1

Running == env.exit = "running"

\* struct plugin_ctx, with what the worker has done so far (for the
\* properties): items popped, items handed to queue_push, items dropped
\* because the transform returned NULL, items pushed as a plain copy, items
\* popped and thrown away on a stop request, calls of queue_push that did
\* not return 0, and those of them that returned QUEUE_SHUTDOWN.  str is the
\* local variable of that name while queue_push runs, made the strings the
\* transform has returned and freed the strings the worker has passed to
\* free, in that order.
WorkerLocals(name, input, output) ==
    [name |-> name, input |-> input, output |-> output,
     npopped |-> 0, nhanded |-> 0, ndropped |-> 0, nplain |-> 0,
     ndiscarded |-> 0, nrefused |-> 0, nclosed |-> 0,
     sawEnd |-> FALSE, propagated |-> FALSE,
     str |-> NULL, made |-> <<>>, freed |-> <<>>]

NewCtx == [created |-> FALSE, stop_requested |-> 0, joined |-> FALSE,
           freed |-> FALSE]

\* The strings on the heap.  No two input lines are alike and the transforms
\* keep them apart, so a string is named by where it was allocated and what
\* it holds: the copy strdup made in queue_push on queue q, or the result of
\* the transform of a stage.
CopyOf(q, s) == <<"copy", q, s>>

ResultOf(i, s) == <<"result", i, s>>

\* free(p): nothing happens for a null pointer.
Free(log, p, object) == IF p = NULL THEN log ELSE Append(log, object)

\* A worker that propagates only on a stop request.
WorkerSeesEnd_StopOnly(ret, stop) == stop # 0

\* A worker that looks at the stop flag only at the head of its loop.
WorkerSeesEnd_ShutdownOnly(ret, stop) == ret = QUEUE_SHUTDOWN

\* Line 145 of the template: ret == QUEUE_SHUTDOWN || ctx->stop_requested.
WorkerSeesEnd(ret, stop) == ret = QUEUE_SHUTDOWN \/ stop # 0

\* The loop test, and the call of queue_pop when it passes.
w_loop(t) ==
    /\ pc[t] = "w_loop"
    /\ IF env.ctx[StageOf(t)].stop_requested # 0
       THEN /\ pc' = [pc EXCEPT ![t] = "exited"]
            /\ UNCHANGED <<frame, kpc>>
       ELSE /\ Call(t, "pop", th[t].input, NULL)
            /\ pc' = [pc EXCEPT ![t] = "w_pop"]
    /\ UNCHANGED <<queues, th, hist, env>>

\* queue_pop has returned.  On the end of the input or a stop request the
\* worker calls queue_shutdown on its output.  Otherwise the string is
\* transformed and, unless the transform returned NULL, handed to queue_push.
w_pop(t) ==
    LET ret == frame[t].ret
        str == frame[t].out_str
    IN
    /\ pc[t] = "w_pop"
    /\ kpc[t] = "done"
    /\ IF WorkerSeesEnd(ret, env.ctx[StageOf(t)].stop_requested)
       THEN /\ Call(t, "shutdown", th[t].output, NULL)
            /\ pc' = [pc EXCEPT ![t] = "w_shutdown"]
            /\ th' = [th EXCEPT
                        ![t].sawEnd = @ \/ ret = QUEUE_SHUTDOWN,
                        ![t].npopped = IF ret = 0 THEN @ + 1 ELSE @,
                        ![t].ndiscarded = IF ret = 0 THEN @ + 1 ELSE @,
                        ![t].freed = Free(@, str, CopyOf(th[t].input, str))]
            /\ UNCHANGED env
       ELSE IF ret = 0 /\ str # NULL
       THEN \E r \in TransformResults(th[t].name, str) :  \* not the end
              /\ (r # Transform(th[t].name, str)) => CanFail
              /\ env' = IF r # Transform(th[t].name, str) THEN Failed ELSE env
              /\ IF r = NULL
                 THEN /\ th' = [th EXCEPT
                                  ![t].npopped = @ + 1,
                                  ![t].ndropped = @ + 1,
                                  ![t].freed =
                                      Free(@, str, CopyOf(th[t].input, str))]
                      /\ pc' = [pc EXCEPT ![t] = "w_loop"]
                      /\ kpc' = [kpc EXCEPT ![t] = "none"]
                      /\ UNCHANGED frame
                 ELSE /\ Call(t, "push", th[t].output, r)
                      /\ th' = [th EXCEPT
                                  ![t].npopped = @ + 1,
                                  ![t].nhanded = @ + 1,
                                  ![t].nplain =
                                      IF r # Transform(th[t].name, str)
                                      THEN @ + 1 ELSE @,
                                  ![t].str = str,
                                  ![t].made =
                                      Append(@, ResultOf(StageOf(t), r))]
                      /\ pc' = [pc EXCEPT ![t] = "w_push"]
       ELSE /\ pc' = [pc EXCEPT ![t] = "w_loop"]
            /\ kpc' = [kpc EXCEPT ![t] = "none"]
            /\ th' = [th EXCEPT ![t].sawEnd = @ \/ ret = QUEUE_SHUTDOWN]
            /\ UNCHANGED <<frame, env>>
    /\ UNCHANGED <<queues, hist>>

\* queue_push has returned; its result is not looked at.  Both strings are
\* freed and the loop starts again.
w_push(t) ==
    /\ pc[t] = "w_push"
    /\ kpc[t] = "done"
    /\ th' = [th EXCEPT
                ![t].nrefused = IF frame[t].ret # 0 THEN @ + 1 ELSE @,
                ![t].nclosed =
                    IF frame[t].ret = QUEUE_SHUTDOWN THEN @ + 1 ELSE @,
                ![t].freed =
                    Free(Free(@, frame[t].str,
                              ResultOf(StageOf(t), frame[t].str)),
                         th[t].str, CopyOf(th[t].input, th[t].str)),
                ![t].str = NULL]
    /\ pc' = [pc EXCEPT ![t] = "w_loop"]
    /\ kpc' = [kpc EXCEPT ![t] = "none"]
    /\ UNCHANGED <<queues, frame, hist, env>>

\* queue_shutdown(ctx->output) has returned: break, return NULL.
w_shutdown(t) ==
    /\ pc[t] = "w_shutdown"
    /\ kpc[t] = "done"
    /\ th' = [th EXCEPT ![t].propagated = TRUE]
    /\ pc' = [pc EXCEPT ![t] = "exited"]
    /\ kpc' = [kpc EXCEPT ![t] = "none"]
    /\ UNCHANGED <<queues, frame, hist, env>>

WorkerStep(t) ==
    w_loop(t) \/ w_pop(t) \/ w_push(t) \/ w_shutdown(t)

\* plugin_request_stop (lower.c lines 75-80).
plugin_request_stop(i) == [env EXCEPT !.ctx[i].stop_requested = 1]

\* plugin_destroy up to its join (lower.c lines 82-87): the stop flag is
\* set and queue_shutdown called on the stage's input.
plugin_destroy_begin(t, i) ==
    /\ env' = plugin_request_stop(i)
    /\ Call(t, "shutdown", i, NULL)

\* A plugin_destroy that does not wait for the worker.
plugin_destroy_end_NoJoin(t, i) ==
    /\ kpc[t] = "done"
    /\ kpc' = [kpc EXCEPT ![t] = "none"]

\* pthread_join returns when the worker has exited; then free(p).
plugin_destroy_end(t, i) ==
    /\ kpc[t] = "done"
    /\ pc[StageThread(i)] = "exited"
    /\ kpc' = [kpc EXCEPT ![t] = "none"]

(***************************************************************************)
(* main.c: input_thread (build.sh lines 257-276).                          *)
(***************************************************************************)
MAX_LINE_LENGTH == 1024

END == <<"<", "E", "N", "D", ">">>

\* fgets(line, sizeof(line), stdin) on a stream that is not at its end: the
\* characters up to and including the first newline, at most
\* MAX_LINE_LENGTH - 1 of them.
fgets(stream) ==
    LET n == Len(stream)
        limit == IF n < MAX_LINE_LENGTH - 1 THEN n ELSE MAX_LINE_LENGTH - 1
        nl == {i \in 1..limit : stream[i] = "\n"}
        k == IF nl = {} THEN limit
             ELSE CHOOSE i \in nl : \A j \in nl : i <= j
    IN SubSeq(stream, 1, k)

\* A reader that leaves the newline in place.
StripNewline_Keep(line) == line

\* Lines 262-265: a trailing newline is cut off.
StripNewline(line) ==
    IF Len(line) > 0 /\ line[Len(line)] = "\n"
    THEN SubSeq(line, 1, Len(line) - 1)
    ELSE line

\* One round of the loop: fgets, and queue_shutdown on <END> or queue_push
\* of the line.  At the end of the file fgets returns NULL and the thread
\* returns.
ReadLine ==
    IF env.stdin = <<>>
    THEN /\ pc' = [pc EXCEPT ![Reader] = "exited"]
         /\ kpc' = [kpc EXCEPT ![Reader] = "none"]
         /\ UNCHANGED <<frame, th, env>>
    ELSE LET got == fgets(env.stdin)
             line == StripNewline(got)
         IN /\ env' = [env EXCEPT !.stdin = SubSeq(@, Len(got) + 1, Len(@))]
            /\ IF line = END
               THEN /\ Call(Reader, "shutdown", 0, NULL)
                    /\ pc' = [pc EXCEPT ![Reader] = "r_shutdown"]
                    /\ UNCHANGED th
               ELSE /\ Call(Reader, "push", 0, line)
                    /\ pc' = [pc EXCEPT ![Reader] = "r_push"]
                    /\ th' = [th EXCEPT ![Reader].handed = Append(@, line)]

\* The first round.
r_fgets ==
    /\ pc[Reader] = "r_fgets"
    /\ ReadLine
    /\ UNCHANGED <<queues, hist>>

\* queue_push has returned; its result is not looked at.  The next round.
r_push ==
    /\ pc[Reader] = "r_push"
    /\ kpc[Reader] = "done"
    /\ ReadLine
    /\ UNCHANGED <<queues, hist>>

\* queue_shutdown has returned: break, return NULL.
r_shutdown ==
    /\ pc[Reader] = "r_shutdown"
    /\ kpc[Reader] = "done"
    /\ pc' = [pc EXCEPT ![Reader] = "exited"]
    /\ kpc' = [kpc EXCEPT ![Reader] = "none"]
    /\ UNCHANGED <<queues, frame, th, hist, env>>

ReaderStep == r_fgets \/ r_push \/ r_shutdown

(***************************************************************************)
(* main.c: output_thread (build.sh lines 278-289).                         *)
(***************************************************************************)
o_pop ==
    /\ pc[Writer] = "o_pop"
    /\ Call(Writer, "pop", env.N, NULL)
    /\ pc' = [pc EXCEPT ![Writer] = "o_write"]
    /\ UNCHANGED <<queues, th, hist, env>>

\* queue_pop has returned: on 0 the string is printed and freed and
\* queue_pop called again, on any other result the loop ends.
o_write ==
    /\ pc[Writer] = "o_write"
    /\ kpc[Writer] = "done"
    /\ IF frame[Writer].ret = 0
       THEN /\ env' = [env EXCEPT !.stdout = Append(@, frame[Writer].out_str)]
            /\ th' = [th EXCEPT ![Writer].freed =
                        Free(@, frame[Writer].out_str,
                             CopyOf(env.N, frame[Writer].out_str))]
            /\ Call(Writer, "pop", env.N, NULL)
            /\ UNCHANGED pc
       ELSE /\ pc' = [pc EXCEPT ![Writer] = "exited"]
            /\ kpc' = [kpc EXCEPT ![Writer] = "none"]
            /\ UNCHANGED <<frame, th, env>>
    /\ UNCHANGED <<queues, hist>>

WriterStep == o_pop \/ o_write

(***************************************************************************)
(* main.c: main (build.sh lines 291-378).  The queues are initialised in   *)
(* the first state; th[Main].i is the loop variable i.                     *)
(***************************************************************************)
MainAt(label) == pc[Main] = label

\* main returns: the process ends and every thread with it, wherever it is.
Exit(code) ==
    /\ env' = [env EXCEPT !.exit = code, !.atExit = pc]
    /\ pc' = [t \in PipeThreads |->
                IF t = Main \/ pc[t] = "exited" THEN "exited"
                ELSE IF pc[t] \in {"unused", "unborn"} THEN pc[t]
                ELSE "killed"]
    /\ kpc' = [t \in PipeThreads |-> "none"]

\* The loop variable after one more round of a loop of `count` rounds, and
\* where main is then.
NextRound(i, count, again, after) ==
    IF i + 1 < count
    THEN /\ th' = [th EXCEPT ![Main].i = i + 1]
         /\ pc' = [pc EXCEPT ![Main] = again]
    ELSE /\ th' = [th EXCEPT ![Main].i = 0]
         /\ pc' = [pc EXCEPT ![Main] = after]

\* Lines 310-336: dlopen, dlsym and plugin_create of stage i.  When one of
\* them fails main returns 1; otherwise the worker thread of the stage runs.
m_load ==
    LET i == th[Main].i IN
    /\ MainAt("m_load")
    /\ \/ /\ env' = [env EXCEPT !.ctx[i].created = TRUE]
          /\ IF i + 1 < env.N
             THEN /\ th' = [th EXCEPT ![Main].i = i + 1]
                  /\ pc' = [pc EXCEPT ![StageThread(i)] = "w_loop"]
             ELSE /\ th' = [th EXCEPT ![Main].i = 0]
                  /\ pc' = [pc EXCEPT ![StageThread(i)] = "w_loop",
                                      ![Main] = "m_create_input"]
          /\ UNCHANGED kpc
       \/ /\ Exit("returned 1")
          /\ UNCHANGED th
    /\ UNCHANGED <<queues, frame, hist>>

\* Line 340.
m_create_input ==
    /\ MainAt("m_create_input")
    /\ pc' = [pc EXCEPT ![Reader] = "r_fgets", ![Main] = "m_create_output"]
    /\ UNCHANGED <<queues, kpc, frame, th, hist, env>>

\* Line 341.
m_create_output ==
    /\ MainAt("m_create_output")
    /\ pc' = [pc EXCEPT ![Writer] = "o_pop", ![Main] = "m_join_input"]
    /\ UNCHANGED <<queues, kpc, frame, th, hist, env>>

\* Line 344: pthread_join(input_tid).
m_join_input ==
    /\ MainAt("m_join_input")
    /\ pc[Reader] = "exited"
    /\ pc' = [pc EXCEPT ![Main] = "m_join_output"]
    /\ env' = [env EXCEPT !.joined = @ \cup {Reader}]
    /\ UNCHANGED <<queues, kpc, frame, th, hist>>

\* Line 350: pthread_join(output_tid).
m_join_output ==
    /\ MainAt("m_join_output")
    /\ pc[Writer] = "exited"
    /\ pc' = [pc EXCEPT ![Main] = "m_request_stop"]
    /\ env' = [env EXCEPT !.joined = @ \cup {Writer}]
    /\ UNCHANGED <<queues, kpc, frame, th, hist>>

\* Lines 353-357, one round.
m_request_stop ==
    LET i == th[Main].i IN
    /\ MainAt("m_request_stop")
    /\ env' = plugin_request_stop(i)
    /\ NextRound(i, env.N, "m_request_stop", "m_destroy")
    /\ UNCHANGED <<queues, kpc, frame, hist>>

\* Lines 360-367, one round: plugin_destroy of stage i, in two steps.
m_destroy ==
    LET i == th[Main].i IN
    /\ MainAt("m_destroy")
    /\ plugin_destroy_begin(Main, i)
    /\ pc' = [pc EXCEPT ![Main] = "m_destroy_join"]
    /\ UNCHANGED <<queues, th, hist>>

m_destroy_join ==
    LET i == th[Main].i IN
    /\ MainAt("m_destroy_join")
    /\ plugin_destroy_end(Main, i)
    /\ env' = [env EXCEPT !.ctx[i].joined = TRUE, !.ctx[i].freed = TRUE,
                          !.joined = @ \cup {StageThread(i)}]
    /\ NextRound(i, env.N, "m_destroy", "m_queue_destroy")
    /\ UNCHANGED <<queues, frame, hist>>

\* A queue_destroy that leaves the strings where they are.
queue_destroy_Keep(Q) == Q

\* queue_destroy (queue.c lines 58-81): with the mutex held the strings left
\* in the ring are freed; then the mutex, the conditions and the ring go.
queue_destroy(Q) ==
    [Q EXCEPT !.buffer = [j \in DOMAIN Q.buffer |-> NULL],
              !.head = (Q.head + Q.size) % Q.capacity,
              !.size = 0]

\* The strings queue_destroy passes to free (lines 65-70), in that order.
Released(q, Q) == [k \in 1..Q.size |-> CopyOf(q, RingItems(Q)[k])]

\* Lines 370-372, one round.
m_queue_destroy ==
    LET i == th[Main].i IN
    /\ MainAt("m_queue_destroy")
    /\ MutexFree(i)
    /\ queues' = [queues EXCEPT ![i] = queue_destroy(@)]
    /\ env' = [env EXCEPT !.destroyed = @ \cup {i},
                          !.leftover = @ + queues[i].size,
                          !.released = @ \o Released(i, queues[i])]
    /\ NextRound(i, env.N + 1, "m_queue_destroy", "m_return")
    /\ UNCHANGED <<kpc, frame, hist>>

\* Line 377: return 0.
m_return ==
    /\ MainAt("m_return")
    /\ Exit("returned 0")
    /\ UNCHANGED <<queues, frame, th, hist>>

MainStep ==
    \/ m_load \/ m_create_input \/ m_create_output
    \/ m_join_input \/ m_join_output
    \/ m_request_stop \/ m_destroy \/ m_destroy_join
    \/ m_queue_destroy \/ m_return

(***************************************************************************)
(* The runs of the pipeline: the plugins on the command line, the queue    *)
(* capacity and standard input, as in the end-to-end cases of              *)
(* tests/test_queue.c (lines 496-567).                                     *)
(***************************************************************************)
\* The k-th input line: a blank, a small letter and a capital, so that every
\* transform changes it and no two lines are alike.
InputLine(k) == <<" ", LowerChars[k], UpperChars[k + 1]>>

InputLines(k) == [j \in 1..k |-> InputLine(j)]

RECURSIVE Stream(_)
Stream(lines) ==
    IF lines = <<>> THEN <<>>
    ELSE Head(lines) \o <<"\n">> \o Stream(Tail(lines))

\* What follows the lines: <END>, nothing (end of file), or <END> and one
\* more line.
Tails == {"end", "eof", "more"}

TailLines(tail, k) ==
    CASE tail = "end"  -> <<END>>
      [] tail = "eof"  -> <<>>
      [] tail = "more" -> <<END, InputLine(k + 1)>>

\* The command line of the test "All six plugins".
Chain == <<"trim", "upper", "reverse", "prefix", "suffix", "lower">>

\* That command line cut into runs of n stages, for every n up to MaxStages.
CommandLines ==
    {SubSeq(Chain, 1 + r[1] * r[2], r[1] + r[1] * r[2]) :
        r \in {r \in (1..MaxStages) \X (0..(Len(Chain) - 1)) :
                  r[1] + r[1] * r[2] <= Len(Chain)}}

\* Standard input holds at most MaxLines + 1 lines.
Inputs ==
    {r \in [k : 0..MaxLines, tail : Tails] :
        r.k + Len(TailLines(r.tail, r.k)) <= MaxLines + 1}

\* The state in which main has initialised the N + 1 queues (lines 302-307).
PipeInit(argv, capacity, k, tail) ==
    LET N == Len(argv) IN
    /\ queues = [q \in 0..N |-> queue_init(capacity)]
    /\ hist = [q \in 0..N |-> NoHist]
    /\ kpc = [t \in PipeThreads |-> "none"]
    /\ frame = [t \in PipeThreads |-> NoFrame]
    /\ pc = [t \in PipeThreads |->
               IF t = Main THEN "m_load"
               ELSE IF t \in Stages /\ t > N THEN "unused" ELSE "unborn"]
    /\ th = [t \in PipeThreads |->
               IF t \in 1..N
               THEN WorkerLocals(argv[t], StageOf(t), StageOf(t) + 1)
               ELSE IF t = Reader THEN [handed |-> <<>>]
               ELSE [i |-> 0, freed |-> <<>>]]
    /\ env = [exit |-> "running", argv |-> argv, N |-> N,
              ctx |-> [i \in 0..(N - 1) |-> NewCtx],
              lines |-> InputLines(k), tail |-> tail,
              stdin |-> Stream(InputLines(k) \o TailLines(tail, k)),
              stdout |-> <<>>, joined |-> {}, destroyed |-> {},
              leftover |-> 0, released |-> <<>>, nfail |-> 0,
              atExit |-> <<>>]

InitPipe ==
    \E argv \in CommandLines, capacity \in 1..MaxPipeCap, in \in Inputs :
        /\ Len(argv) \in 1..MaxStages
        /\ PipeInit(argv, capacity, in.k, in.tail)

NextPipe ==
    \/ MainStep
    \/ ReaderStep
    \/ WriterStep
    \/ \E t \in Stages : WorkerStep(t)
    \/ \E t \in PipeThreads : QueueStep(t) \/ spurious_wakeup(t)

SpecPipe == InitPipe /\ [][NextPipe]_vars

(***************************************************************************)
(* The pipeline under fair scheduling: a thread that can take a step       *)
(* eventually takes it, and a thread that waits for a mutex that is freed  *)
(* again and again eventually gets it.  Spurious wakeups need not happen.  *)
(* The command lines are the last n plugins of the chain, for every n up   *)
(* to MaxStages.                                                           *)
(***************************************************************************)
FairCommandLines ==
    {SubSeq(Chain, Len(Chain) - n + 1, Len(Chain)) : n \in 1..MaxStages}

\* Standard input ends with <END>; a pipeline of MaxStages stages gets at
\* most one line before it, and one line more for every stage fewer.
FairInputs(N) ==
    {r \in Inputs : r.tail = "end" /\ N + r.k <= MaxStages + 1}

InitPipeFair ==
    \E argv \in FairCommandLines, capacity \in 1..MaxPipeCap :
        \E in \in FairInputs(Len(argv)) :
            PipeInit(argv, capacity, in.k, in.tail)

SpecPipeFair ==
    /\ InitPipeFair
    /\ [][NextPipe]_vars
    /\ WF_vars(MainStep)
    /\ WF_vars(ReaderStep)
    /\ WF_vars(WriterStep)
    /\ \A t \in Stages : WF_vars(WorkerStep(t))
    /\ \A t \in PipeThreads : SF_vars(QueueStep(t))

(***************************************************************************)
(* One stage between two queues, with the reader feeding it and the writer *)
(* collecting from it, and a controlling thread that may call              *)
(* plugin_request_stop and plugin_destroy at any moment, as the plugin     *)
(* tests of tests/test_integration.c do.                                   *)
(***************************************************************************)
ctl_request_stop ==
    /\ MainAt("ctl")
    /\ env.ctx[0].stop_requested = 0
    /\ env' = plugin_request_stop(0)
    /\ UNCHANGED <<queues, kpc, frame, pc, th, hist>>

ctl_destroy ==
    /\ MainAt("ctl")
    /\ plugin_destroy_begin(Main, 0)
    /\ pc' = [pc EXCEPT ![Main] = "ctl_join"]
    /\ UNCHANGED <<queues, th, hist>>

ctl_join ==
    /\ MainAt("ctl_join")
    /\ plugin_destroy_end(Main, 0)
    /\ env' = [env EXCEPT !.ctx[0].joined = TRUE, !.ctx[0].freed = TRUE,
                          !.joined = @ \cup {StageThread(0)}]
    /\ pc' = [pc EXCEPT ![Main] = "ctl_done"]
    /\ UNCHANGED <<queues, frame, th, hist>>

ControlStep == ctl_request_stop \/ ctl_destroy \/ ctl_join

InitStage ==
    \E name \in PluginNames, capacity \in 1..MaxPipeCap, in \in Inputs :
        \E q0 \in {queue_init(capacity)}, k \in {in.k}, tail \in {in.tail} :
            /\ queues = [q \in 0..1 |-> q0]
            /\ hist = [q \in 0..1 |-> NoHist]
            /\ kpc = [t \in PipeThreads |-> "none"]
            /\ frame = [t \in PipeThreads |-> NoFrame]
            /\ pc = [t \in PipeThreads |->
                       CASE t = StageThread(0) -> "w_loop"
                         [] t = Reader -> "r_fgets"
                         [] t = Writer -> "o_pop"
                         [] t = Main -> "ctl"
                         [] OTHER -> "unused"]
            /\ th = [t \in PipeThreads |->
                       IF t = StageThread(0) THEN WorkerLocals(name, 0, 1)
                       ELSE IF t = Reader THEN [handed |-> <<>>]
                       ELSE [i |-> 0, freed |-> <<>>]]
            /\ env = [exit |-> "running", argv |-> <<name>>, N |-> 1,
                      ctx |-> [i \in {0} |-> [NewCtx EXCEPT !.created = TRUE]],
                      lines |-> InputLines(k), tail |-> tail,
                      stdin |-> Stream(InputLines(k) \o TailLines(tail, k)),
                      stdout |-> <<>>, joined |-> {}, destroyed |-> {},
                      leftover |-> 0, released |-> <<>>, nfail |-> 0,
              atExit |-> <<>>]

NextStage ==
    \/ ControlStep
    \/ ReaderStep
    \/ WriterStep
    \/ WorkerStep(StageThread(0))
    \/ \E t \in PipeThreads : QueueStep(t) \/ spurious_wakeup(t)

SpecStage == InitStage /\ [][NextStage]_vars

(***************************************************************************)
(* The one stage under fair scheduling.  The controlling thread is free    *)
(* never to call plugin_request_stop or plugin_destroy, but a plugin_destroy *)
(* that has been called goes on when it can.                               *)
(***************************************************************************)
\* The stage is the last plugin of the chain; standard input ends without
\* <END>, so that only plugin_destroy shuts the stage's input queue down, or
\* holds nothing but <END>.
InitStageFair ==
    /\ InitStage
    /\ env.argv \in FairCommandLines
    /\ env.tail = "eof" \/ env.lines = <<>>

SpecStageFair ==
    /\ InitStageFair
    /\ [][NextStage]_vars
    /\ WF_vars(ctl_join)
    /\ WF_vars(ReaderStep)
    /\ WF_vars(WriterStep)
    /\ WF_vars(WorkerStep(StageThread(0)))
    /\ \A t \in PipeThreads : SF_vars(QueueStep(t))

(***************************************************************************)
(* One stage whose output queue is shut down from outside while the stage  *)
(* works, as the test thread of test_plugin_request_stop_behavior does     *)
(* (tests/test_integration.c line 765).                                    *)
(***************************************************************************)
ctl_close_output ==
    /\ MainAt("ctl")
    /\ Call(Main, "shutdown", 1, NULL)
    /\ pc' = [pc EXCEPT ![Main] = "ctl_closing"]
    /\ UNCHANGED <<queues, th, hist, env>>

ctl_closed ==
    /\ MainAt("ctl_closing")
    /\ kpc[Main] = "done"
    /\ pc' = [pc EXCEPT ![Main] = "ctl_done"]
    /\ kpc' = [kpc EXCEPT ![Main] = "none"]
    /\ UNCHANGED <<queues, frame, th, hist, env>>

DownstreamStep == ctl_close_output \/ ctl_closed

NextDown ==
    \/ DownstreamStep
    \/ ReaderStep
    \/ WriterStep
    \/ WorkerStep(StageThread(0))
    \/ \E t \in PipeThreads : QueueStep(t) \/ spurious_wakeup(t)

\* The stage is the last plugin of the chain.
InitDown == InitStage /\ env.argv \in FairCommandLines

SpecDown == InitDown /\ [][NextDown]_vars

(***************************************************************************)
(* Properties of the queue.                                                *)
(***************************************************************************)
IsPrefix(a, b) ==
    /\ Len(a) <= Len(b)
    /\ \A i \in 1..Len(a) : a[i] = b[i]

Range(f) == {f[i] : i \in DOMAIN f}

\* The part of a queue record that queue_size, queue_is_empty and the
\* results of later pushes and pops depend on.
Ring(Q) == <<Q.shutdown, Q.size, Q.head, Q.tail, Q.buffer>>

InCall(t, fn) == frame[t].fn = fn /\ kpc[t] # "none"

Returned(t, fn) == frame[t].fn = fn /\ kpc[t] = "done"

\* C1: in every reachable state 0 <= size <= capacity, whatever the callers
\* of queue_push, queue_pop and queue_shutdown do, and a queue_push that is
\* past its checks (about to copy or to store its item) has size < capacity.
C1_CapacityBound ==
    \A q \in QueueIds :
        /\ 0 <= queues[q].size
        /\ queues[q].size <= queues[q].capacity
        /\ \A t \in Threads :
              (frame[t].queue = q /\ kpc[t] \in {"push_copy", "push_enqueue"})
                  => queues[q].size < queues[q].capacity

\* A push blocked on a full queue.
C1_Witness ==
    \E t \in Threads :
        /\ kpc[t] = "push_parked"
        /\ queues[frame[t].queue].size = queues[frame[t].queue].capacity

\* The items of the calls of thread t that have returned 0.
Pushes(t) ==
    th[t].sent \o (IF pc[t] = "calling" /\ Returned(t, "push") /\ frame[t].ret = 0
                   THEN <<frame[t].str>> ELSE <<>>)

Pops(t) ==
    th[t].received \o (IF pc[t] = "calling" /\ Returned(t, "pop") /\ frame[t].ret = 0
                       THEN <<frame[t].out_str>> ELSE <<>>)

Finished(t) == pc[t] = "idle" /\ th[t].ncalls = th[t].quota

\* C2: with one producer and one consumer, the items returned by the
\* successful pops are, in order, the items of the successful pushes: at any
\* moment a prefix of them, and all of them once both threads have finished.
C2_Fifo ==
    /\ IsPrefix(Pops(Consumer), Pushes(Producer))
    /\ (Finished(Producer) /\ Finished(Consumer))
           => Pops(Consumer) = Pushes(Producer)

\* Both have finished after more items than the ring has slots.
C2_Witness ==
    /\ Finished(Producer) /\ Finished(Consumer)
    /\ Len(Pops(Consumer)) > queues[0].capacity
    /\ queues[0].capacity > 1

\* The items dequeued since the shutdown flag of queue q was first set.
Drained(q) ==
    SubSeq(hist[q].popped, hist[q].popsAtClose + 1, Len(hist[q].popped))

\* C3: if the queue holds m items when queue_shutdown sets the flag, the
\* pops after it return exactly those items in FIFO order, no push adds to
\* them, and a pop returns QUEUE_SHUTDOWN, with *out_str NULL, only when all
\* m have been returned.
C3_Drain ==
    \A q \in QueueIds :
        hist[q].closed =>
            /\ IsPrefix(Drained(q), hist[q].atClose)
            /\ RingItems(queues[q]) =
                  SubSeq(hist[q].atClose, Len(Drained(q)) + 1, Len(hist[q].atClose))
            /\ \A t \in Threads :
                  (frame[t].queue = q /\ Returned(t, "pop")) =>
                      IF frame[t].ret = QUEUE_SHUTDOWN
                      THEN /\ Drained(q) = hist[q].atClose
                           /\ frame[t].out_str = NULL
                      ELSE /\ frame[t].ret = 0
                           /\ frame[t].out_str \in Range(hist[q].popped)

\* Items were held at the shutdown, and a pop has returned QUEUE_SHUTDOWN.
C3_Witness ==
    \E t \in Threads :
        /\ Returned(t, "pop")
        /\ frame[t].ret = QUEUE_SHUTDOWN
        /\ Len(hist[frame[t].queue].atClose) >= 1

\* C4: a queue_push entered after the shutdown flag was set leaves shutdown,
\* size, head, tail and the slots as they are in every step it takes, and
\* returns QUEUE_SHUTDOWN.
C4_ClosedRejectsPush ==
    [][\A t \in Threads :
          (InCall(t, "push") /\ frame[t].closedAtEntry /\ kpc'[t] # kpc[t])
              => /\ Ring(queues'[frame[t].queue]) = Ring(queues[frame[t].queue])
                 /\ kpc'[t] = "done" => frame'[t].ret = QUEUE_SHUTDOWN]_vars

\* A push on a full queue that was shut down before has returned.
C4_Witness ==
    \E t \in Threads :
        /\ Returned(t, "push")
        /\ frame[t].closedAtEntry
        /\ frame[t].ret = QUEUE_SHUTDOWN
        /\ queues[frame[t].queue].size = queues[frame[t].queue].capacity

\* C5: under fair scheduling a thread that is inside pthread_cond_wait of
\* queue_push or queue_pop (blocked, or woken and waiting for the mutex)
\* while the shutdown flag is set eventually returns from its call.
C5_ShutdownUnblocks ==
    \A t \in FairThreads :
        (/\ kpc[t] \in {"push_parked", "push_woken", "pop_parked", "pop_woken"}
         /\ queues[frame[t].queue].shutdown # 0)
            ~> (kpc[t] = "done")

\* Two threads were blocked when the flag was set, and both have returned.
C5_Witness ==
    \E t, u \in Threads :
        /\ t # u
        /\ frame[t].atClose \in {"push_parked", "pop_parked"}
        /\ frame[u].atClose \in {"push_parked", "pop_parked"}
        /\ kpc[t] = "done" /\ kpc[u] = "done"

\* C6: a producer that was inside pthread_cond_wait when the shutdown flag
\* was set never gets past the check after the wait: it returns
\* QUEUE_SHUTDOWN and its string is not in the queue.
C6_ParkedProducerRejected ==
    \A t \in Threads :
        (frame[t].fn = "push" /\ frame[t].atClose # "none") =>
            /\ kpc[t] \in {"push_parked", "push_woken", "push_while",
                            "push_chk2", "done", "none"}
            /\ kpc[t] \in {"done", "none"} => frame[t].ret = QUEUE_SHUTDOWN
            /\ frame[t].str \notin Range(hist[frame[t].queue].pushed)

\* The producer had been woken (a pop had freed a slot and signalled it)
\* but did not hold the mutex yet when the flag was set; it has returned.
C6_Witness ==
    \E t \in Threads :
        /\ Returned(t, "push")
        /\ frame[t].atClose = "push_woken"
        /\ frame[t].ret = QUEUE_SHUTDOWN
        /\ Len(hist[frame[t].queue].atClose) < queues[frame[t].queue].capacity

\* C7: a queue_shutdown entered when the flag is already set changes nothing
\* in any of its steps (flag, size, head, tail, slots, the waiting sets, the
\* position of every other thread), and every queue_shutdown returns 0.
C7_ShutdownIdempotent ==
    [][\A t \in Threads :
          (InCall(t, "shutdown") /\ kpc'[t] # kpc[t]) =>
              /\ kpc'[t] = "done" => frame'[t].ret = 0
              /\ frame[t].closedAtEntry =>
                    /\ Ring(queues'[frame[t].queue]) = Ring(queues[frame[t].queue])
                    /\ queues'[frame[t].queue].not_full = queues[frame[t].queue].not_full
                    /\ queues'[frame[t].queue].not_empty = queues[frame[t].queue].not_empty
                    /\ \A u \in Threads \ {t} : kpc'[u] = kpc[u]]_vars

\* A second queue_shutdown has returned while items were still queued.
C7_Witness ==
    \E t \in Threads :
        /\ Returned(t, "shutdown")
        /\ frame[t].closedAtEntry
        /\ queues[frame[t].queue].size > 0

(***************************************************************************)
(* Properties of the stage worker and of the pipeline.                     *)
(***************************************************************************)
Started(t) == pc[t] \notin {"unused", "unborn"}

\* The worker is calling queue_shutdown on its output, or has done so and
\* returned.
Propagating(t) ==
    \/ /\ pc[t] = "w_shutdown"
       /\ frame[t].fn = "shutdown"
       /\ frame[t].queue = th[t].output
    \/ /\ pc[t] = "exited"
       /\ th[t].propagated
       /\ hist[th[t].output].closed

RECURSIVE ApplyChain(_, _)
ApplyChain(names, x) ==
    IF names = <<>> THEN x
    ELSE ApplyChain(Tail(names), Transform(Head(names), x))

\* No allocation inside a transform has failed.
NoTransformFailed ==
    \A t \in 1..env.N : th[t].ndropped = 0 /\ th[t].nplain = 0

\* C9: when standard input is the lines L followed by <END> and no transform
\* fails, what the output thread has written is at any moment a prefix of
\* the transformed lines of L, in order, and all of them once the output
\* thread has returned.
C9_NoLossInOrder ==
    (env.tail = "end" /\ NoTransformFailed) =>
        LET expected == [k \in 1..Len(env.lines) |->
                           ApplyChain(env.argv, env.lines[k])]
        IN /\ IsPrefix(env.stdout, expected)
           /\ pc[Writer] = "exited" => env.stdout = expected

\* C10: unless an item is dropped for a failed transform, the items
\* enqueued on the last queue are, in order, the items enqueued on the first
\* queue with the transforms of all stages applied in stage order.
C10_Composition ==
    (\A t \in 1..env.N : th[t].ndropped = 0) =>
        IsPrefix(hist[env.N].pushed,
                 [k \in 1..Len(hist[0].pushed) |->
                    ApplyChain(env.argv, hist[0].pushed[k])])

(***************************************************************************)
(* Properties of the shutdown of the pipeline.                             *)
(***************************************************************************)
\* The reader has read <END>, called queue_shutdown on queue 0 and returned.
ReaderSawEND ==
    /\ pc[Reader] = "exited"
    /\ frame[Reader].fn = "shutdown"

PipeWorkers == 1..env.N

\* main has returned 0 after joining the reader, the output thread and every
\* worker and destroying every queue.
CleanExit ==
    /\ env.exit = "returned 0"
    /\ env.joined = PipeWorkers \cup {Reader, Writer}
    /\ \A t \in env.joined : env.atExit[t] = "exited"
    /\ env.destroyed = 0..env.N

C12_EofClosesQueue ==
    (Running /\ env.tail = "eof" /\ pc[Reader] = "exited") =>
        queues[0].shutdown # 0

\* The input queue of worker t is shut down and empty, and every item that
\* was enqueued on it has been popped, all of them by the worker.
InputDrained(t) ==
    LET q == th[t].input IN
    /\ queues[q].shutdown # 0
    /\ queues[q].size = 0
    /\ hist[q].popped = hist[q].pushed
    /\ th[t].npopped = Len(hist[q].pushed)

\* C13 (as amended): a worker whose thread has returned after its queue_pop
\* returned QUEUE_SHUTDOWN has left nothing in its input queue.
C13_EndSeenMeansDrained ==
    \A t \in Stages :
        (pc[t] = "exited" /\ th[t].sawEnd) => InputDrained(t)

\* The worker has popped an item and then returned at the end of its input.
C13_Witness ==
    \E t \in Stages :
        /\ pc[t] = "exited"
        /\ th[t].sawEnd
        /\ th[t].npopped >= 1
        /\ InputDrained(t)

\* C13 (as stated): whenever a worker's thread has returned, its input queue
\* is shut down and empty and the worker has popped every item enqueued on
\* it.
C13_AsStated ==
    \A t \in Stages :
        (Running /\ pc[t] = "exited") => InputDrained(t)

\* The threads that were given a pointer to queue q: the reader for queue 0
\* (build.sh line 340), the output thread for the last queue (line 341), and
\* the workers of the stages on both sides of q (lines 325-326).
Holders(q) ==
    {t \in PipeWorkers : th[t].input = q \/ th[t].output = q}
        \cup (IF q = 0 THEN {Reader} ELSE {})
        \cup (IF q = env.N THEN {Writer} ELSE {})

\* C14: every thread that holds a pointer to a destroyed queue has returned
\* and been joined, and no thread is inside a queue function on a destroyed
\* queue.
C14_JoinBeforeDestroy ==
    /\ \A q \in env.destroyed : \A t \in Holders(q) :
           pc[t] = "exited" /\ t \in env.joined
    /\ \A t \in PipeThreads :
           kpc[t] # "none" => frame[t].queue \notin env.destroyed

\* main has destroyed every queue of a pipeline of MaxStages stages that
\* has written a line.
C14_Witness ==
    /\ Running
    /\ env.N = MaxStages
    /\ env.destroyed = 0..env.N
    /\ env.stdout # <<>>

\* C15: when main has returned 1 because a stage could not be loaded or
\* created, every queue has been shut down and destroyed and every worker
\* started before the failure had returned and been joined.
C15_RollbackOnFailure ==
    env.exit = "returned 1" =>
        /\ \A q \in 0..env.N : queues[q].shutdown # 0
        /\ env.destroyed = 0..env.N
        /\ \A t \in PipeWorkers :
               env.ctx[StageOf(t)].created =>
                   /\ env.atExit[t] = "exited"
                   /\ t \in env.joined
                   /\ env.ctx[StageOf(t)].freed

\* C16: a worker whose thread has returned has called queue_shutdown on its
\* output queue, also when it returned because stop was requested.
C16_StopClosesOutput ==
    \A t \in Stages :
        (Running /\ pc[t] = "exited") =>
            /\ th[t].propagated
            /\ queues[th[t].output].shutdown # 0

\* C17: a worker whose queue_push returned QUEUE_SHUTDOWN does not call
\* queue_pop on its input again: it shuts its input down or returns.
C17_NoPopAfterClosedPush ==
    \A t \in Stages :
        (Started(t) /\ pc[t] = "w_pop" /\ th[t].nclosed > 0) =>
            frame[t].fn # "pop"

\* C18: a transform in which an allocation failed hands nothing to
\* queue_push (no item reaches the output as a plain copy), and the worker
\* does not return because of it: it returns only at the end of its input
\* or on a stop request.
C18_FailedTransformPushesNothing ==
    \A t \in Stages :
        Started(t) =>
            /\ th[t].nplain = 0
            /\ (Running /\ pc[t] = "exited" /\ th[t].ndropped > 0) =>
                   th[t].sawEnd \/ env.ctx[StageOf(t)].stop_requested # 0

\* The number of items the workers dropped because a transform returned
\* NULL.
Dropped ==
    LET sum[n \in 0..env.N] ==
            IF n = 0 THEN 0 ELSE sum[n - 1] + th[n].ndropped
    IN sum[env.N]

\* C19: once main has destroyed the queues, the lines the reader handed to
\* queue_push are as many as the lines the output thread wrote and the
\* items dropped by failed transforms together.
C19_Conservation ==
    (env.N \in Stages /\ env.destroyed = 0..env.N) =>
        Len(th[Reader].handed) = Len(env.stdout) + Dropped

\* plugin_destroy of stage i is inside its queue_shutdown, holding the mutex
\* of the stage's input queue, which is open and empty, and the worker is
\* blocked in queue_pop on it.
DestroyFindsWorkerParked(i) ==
    LET t == StageThread(i)
        q == th[t].input
    IN /\ pc[Main] = "ctl_join"
       /\ kpc[Main] = "sd_set"
       /\ frame[Main].queue = q
       /\ queues[q].shutdown = 0
       /\ queues[q].size = 0
       /\ pc[t] = "w_pop"
       /\ kpc[t] = "pop_parked"

\* plugin_destroy of stage i has returned: the worker's queue_pop returned
\* QUEUE_SHUTDOWN, its thread has returned and been joined, and the context
\* is freed.
DestroyDone(i) ==
    /\ pc[Main] = "ctl_done"
    /\ pc[StageThread(i)] = "exited"
    /\ th[StageThread(i)].sawEnd
    /\ env.ctx[i].joined
    /\ env.ctx[i].freed

RECURSIVE ItemsOf(_, _)
ItemsOf(p, s) ==
    IF s = <<>> THEN <<>>
    ELSE IF Head(s)[1] = Letters[p]
    THEN <<Head(s)>> \o ItemsOf(p, Tail(s))
    ELSE ItemsOf(p, Tail(s))

\* The number of the call in which its producer pushed the item.
CallIndex(item) == CHOOSE k \in DOMAIN Digits : Digits[k] = item[2]

InCallOrder(s) ==
    \A i, j \in 1..Len(s) : i < j => CallIndex(s[i]) < CallIndex(s[j])

NoDuplicates(s) == \A i, j \in 1..Len(s) : s[i] = s[j] => i = j

\* Every call that has returned, returned one of the results in R.
ResultsIn(t, R) == (Started(t) /\ kpc[t] = "done") => frame[t].ret \in R

\* What was enqueued is what was dequeued followed by what the ring holds;
\* nothing is dequeued twice; the consumer has received what was dequeued
\* (but for the item of a queue_pop that has not yet returned to it); and
\* the items of each producer are dequeued in the order of its calls.
ExactlyOnceInOrder ==
    /\ hist[0].pushed = hist[0].popped \o RingItems(queues[0])
    /\ NoDuplicates(hist[0].pushed)
    /\ IsPrefix(th[TheConsumer].received, hist[0].popped)
    /\ Len(hist[0].popped) <= Len(th[TheConsumer].received) + 1
    /\ \A p \in Producers :
          /\ IsPrefix(ItemsOf(p, hist[0].popped), ItemsOf(p, hist[0].pushed))
          /\ IsPrefix(th[p].sent, ItemsOf(p, hist[0].pushed))
          /\ Len(ItemsOf(p, hist[0].pushed)) <= Len(th[p].sent) + 1
          /\ InCallOrder(ItemsOf(p, hist[0].pushed))

\* C21 (as amended): every queue_pop returns 0 and every queue_push returns
\* 0, or -1 when its copy could not be allocated; every item whose
\* queue_push returned 0 is returned by exactly one queue_pop, and the items
\* of each producer are popped in the order in which it pushed them.
C21_ManyProducers ==
    /\ \A p \in Producers : ResultsIn(p, {0, PUSH_ENOMEM})
    /\ ResultsIn(TheConsumer, {0})
    /\ ExactlyOnceInOrder
    /\ (\A t \in Threads : Finished(t)) =>
          \A p \in Producers :
              ItemsOf(p, th[TheConsumer].received) = th[p].sent

\* Every producer has pushed MaxProducerItems items and the consumer has
\* popped them all, those of the producers interleaved.
C21_Witness ==
    /\ \A t \in Threads : Finished(t)
    /\ Len(th[TheConsumer].received) = MaxProducers * MaxProducerItems
    /\ th[TheConsumer].received[1][1] # th[TheConsumer].received[2][1]

\* C21 (as stated): every queue_push and every queue_pop returns 0, and the
\* rest as above.
C21_AsStated ==
    /\ \A p \in Producers : ResultsIn(p, {0})
    /\ ResultsIn(TheConsumer, {0})
    /\ ExactlyOnceInOrder

(***************************************************************************)
(* Blocking of queue_push and queue_pop.                                   *)
(***************************************************************************)
\* The thread is inside pthread_cond_wait of the given function.
Waiting(t, fn) ==
    /\ frame[t].fn = fn
    /\ kpc[t] \in {"push_parked", "push_woken", "pop_parked", "pop_woken"}

\* A queue_push is past its wait loop only when there is room or the queue
\* is shut down, and while nothing has been popped at most capacity items
\* have been enqueued and every queue_push that returned has a result in R.
PushBlocksWhenFull(R) ==
    /\ \A t \in Threads :
          kpc[t] \in {"push_chk2", "push_copy", "push_enqueue"} =>
              \/ queues[0].size < queues[0].capacity
              \/ queues[0].shutdown # 0
    /\ hist[0].popped = <<>> =>
          /\ Len(hist[0].pushed) <= queues[0].capacity
          /\ Returned(Producer, "push") => frame[Producer].ret \in R

\* The producer's queue_push has returned 0 and its item was the last to be
\* enqueued, or it has returned -1 and the item was not enqueued.
PushCompleted ==
    /\ Returned(Producer, "push")
    /\ \/ /\ frame[Producer].ret = 0
          /\ hist[0].pushed # <<>>
          /\ hist[0].pushed[Len(hist[0].pushed)] = frame[Producer].str
       \/ /\ frame[Producer].ret = PUSH_ENOMEM
          /\ frame[Producer].str \notin Range(hist[0].pushed)

\* C22 (as amended): while nothing has been popped at most C items are
\* enqueued and every queue_push that returns returns 0, or -1 when its
\* copy could not be allocated; no queue_push gets past its wait while the
\* queue is full and open; and under fair scheduling a queue_push that is
\* waiting when a queue_pop has made room eventually returns, with 0 and
\* its item enqueued last unless its copy could not be allocated.
C22_BlocksWhenFull ==
    /\ [](PushBlocksWhenFull({0, PUSH_ENOMEM}))
    /\ (/\ Waiting(Producer, "push")
        /\ queues[0].size < queues[0].capacity) ~> PushCompleted

\* The producer was blocked on the full queue and is woken after a
\* queue_pop has made room: it is about to take the mutex again.
C22_Witness ==
    /\ kpc[Producer] = "push_woken"
    /\ Len(hist[0].pushed) = queues[0].capacity
    /\ Len(hist[0].popped) = 1
    /\ queues[0].size = queues[0].capacity - 1
    /\ Returned(Consumer, "pop")

\* C22 (as stated): with nothing popped, every queue_push that returns
\* returns 0 and at most C items are enqueued.
C22_AsStated == PushBlocksWhenFull({0})

\* C23: a queue_pop is past its wait loop only when the queue holds an item
\* or is shut down; and under fair scheduling a consumer that is waiting in
\* queue_pop when the queue holds an item eventually returns 0 with an
\* item.
C23_BlocksWhenEmpty ==
    /\ [](\A t \in Threads :
             kpc[t] \in {"pop_chk", "pop_dequeue"} =>
                 queues[0].size > 0 \/ queues[0].shutdown # 0)
    /\ [](Returned(Consumer, "pop") =>
             frame[Consumer].ret = 0 /\ frame[Consumer].out_str # NULL)
    /\ (Waiting(Consumer, "pop") /\ queues[0].size > 0) ~>
          (/\ Returned(Consumer, "pop")
           /\ frame[Consumer].ret = 0
           /\ frame[Consumer].out_str # NULL)

\* The consumer was blocked on the empty queue and is woken: it is about to
\* take the mutex again and the queue holds the item that was pushed.
C23_Witness ==
    /\ kpc[Consumer] = "pop_woken"
    /\ queues[0].size = 1
    /\ hist[0].popped = <<>>
    /\ Returned(Producer, "push")

(***************************************************************************)
(* Properties of the reader.                                               *)
(***************************************************************************)
\* The strings that the stages `names`, one after the other, can make of
\* the strings in X (a stage whose transform returns NULL makes nothing).
RECURSIVE Derived(_, _)
Derived(names, X) ==
    IF names = <<>> THEN X
    ELSE Derived(Tail(names),
                 UNION {TransformResults(Head(names), x) \ {NULL} : x \in X})

BeforeEnqueue == {"push_lock", "push_chk", "push_while", "push_woken",
                  "push_chk2", "push_copy"}

\* C25: the result of a failed copy, -1, is neither 0 nor QUEUE_SHUTDOWN;
\* a queue_push whose copy failed has not enqueued its item; and no step of
\* a queue_push up to and including the failed copy changes the shutdown
\* flag, the size, the head, the tail or a stored item of its queue.
C25_FailedCopyLeavesQueue ==
    /\ [](/\ PUSH_ENOMEM \notin {0, QUEUE_SHUTDOWN}
          /\ \A t \in Threads :
                (Returned(t, "push") /\ frame[t].ret = PUSH_ENOMEM) =>
                    \A q \in DOMAIN hist :
                        frame[t].str \notin Range(hist[q].pushed))
    /\ [][\A t \in Threads :
            (/\ InCall(t, "push")
             /\ kpc[t] \in BeforeEnqueue
             /\ kpc'[t] # kpc[t]
             /\ kpc'[t] # "push_enqueue") =>
                /\ Ring(queues'[frame[t].queue]) = Ring(queues[frame[t].queue])
                /\ hist' = hist
                /\ (kpc[t] = "push_copy" => frame'[t].ret = PUSH_ENOMEM)]_vars

\* A queue_push returned -1 on a queue that holds an item of another call.
C25_Witness ==
    \E t \in Threads :
        /\ Returned(t, "push")
        /\ frame[t].ret = PUSH_ENOMEM
        /\ queues[frame[t].queue].size > 0
        /\ queues[frame[t].queue].shutdown = 0

\* Everything of a queue but its flag, its mutex and its conditions.
Contents(Q) == <<Q.size, Q.head, Q.tail, Q.capacity, Q.buffer>>

\* C26: no step of a queue_shutdown changes the size, the head, the tail,
\* the capacity or a stored item of its queue, and the flag is 1 once the
\* call has passed its assignment, whatever the queue held.
C26_ShutdownChangesFlagOnly ==
    [][\A t \in Threads :
          (InCall(t, "shutdown") /\ kpc'[t] # kpc[t]) =>
              /\ Contents(queues'[frame[t].queue])
                     = Contents(queues[frame[t].queue])
              /\ hist'[frame[t].queue].pushed = hist[frame[t].queue].pushed
              /\ hist'[frame[t].queue].popped = hist[frame[t].queue].popped
              /\ (kpc[t] = "sd_set" => queues'[frame[t].queue].shutdown = 1)
              /\ (kpc[t] # "sd_set" =>
                     queues'[frame[t].queue].shutdown
                        = queues[frame[t].queue].shutdown)]_vars

\* A queue_shutdown has returned on a queue that has been popped from, was
\* full when the flag was set and is still full.
C26_Witness ==
    \E t \in Threads :
        /\ Returned(t, "shutdown")
        /\ queues[frame[t].queue].size = queues[frame[t].queue].capacity
        /\ Len(hist[frame[t].queue].atClose) = queues[frame[t].queue].capacity
        /\ hist[frame[t].queue].popped # <<>>

(***************************************************************************)
(* Lock order.                                                             *)
(***************************************************************************)
\* The queues whose mutex thread t holds.
Held(t) == {q \in DOMAIN queues : queues[q].mutex = t}

\* t is inside pthread_mutex_lock, or inside pthread_cond_wait: blocked on
\* the condition or acquiring the mutex again.
AtMutex(t) == kpc[t] \in {"push_lock", "pop_lock", "sd_lock",
                          "push_woken", "pop_woken"}

AtCond(t) == kpc[t] \in {"push_parked", "pop_parked"}

\* t waits for the thread that holds the mutex t is acquiring.
WaitsFor(t, u) ==
    AtMutex(t) /\ u # t /\ queues[frame[t].queue].mutex = u

\* C27: while the process runs, every thread holds the mutex of at most one
\* queue, the queue of the call it is in; a thread acquiring a mutex or
\* blocked on a condition holds no mutex; and the holder a thread waits for
\* is not itself waiting, so that no cycle of waiting threads exists.
C27_OneMutexAtATime ==
    \A t \in PipeThreads : pc[t] # "killed" =>
        /\ Cardinality(Held(t)) <= 1
        /\ Held(t) # {} => (kpc[t] # "none" /\ Held(t) = {frame[t].queue})
        /\ (AtMutex(t) \/ AtCond(t)) => Held(t) = {}
        /\ kpc[t] \in {"none", "done"} => Held(t) = {}
        /\ \A u \in PipeThreads :
               WaitsFor(t, u) => ~(AtMutex(u) \/ AtCond(u))

\* Two queues are locked by two threads, a third thread is acquiring one of
\* these mutexes and a fourth is blocked on a condition.
C27_Witness ==
    \E t, u, v, w \in PipeThreads :
        /\ Cardinality({t, u, v, w}) = 4
        /\ WaitsFor(t, u)
        /\ Held(v) # {}
        /\ AtCond(w)

(***************************************************************************)
(* The monitor (monitor.c) and the threads of its tests                    *)
(* (test_monitor_mutual_exclusion, test_monitor_signal_fairness).          *)
(* The monitor and the variables the threads share are fields of env; the  *)
(* threads call no queue function.                                         *)
(***************************************************************************)
\* monitor_init, lines 13-35.
monitor_init == [mutex |-> Unlocked, condition |-> {}, initialized |-> 1]

\* A monitor that lets everybody in.
MonitorFree_Always(M) == TRUE

\* pthread_mutex_lock of line 59 returns when the mutex is free.
MonitorFree(M) == M.mutex = Unlocked

\* monitor_enter, lines 53-66.
monitor_enter(M, t) == [M EXCEPT !.mutex = t]

\* monitor_exit, lines 71-84.
monitor_exit(M) == [M EXCEPT !.mutex = Unlocked]

\* monitor_wait, lines 89-102: pthread_cond_wait releases the mutex and
\* blocks the caller on the condition.
monitor_wait(M, t) == [M EXCEPT !.mutex = Unlocked, !.condition = @ \cup {t}]

\* monitor_signal, lines 148-161: the monitors that pthread_cond_signal can
\* leave behind, one for each thread it can wake.
monitor_signal(M) ==
    {[M EXCEPT !.condition = @ \ W] : W \in SignalChoices(M.condition)}

MonThreads == 1..MaxMonThreads

Roles == {"increment", "waiter", "signaler"}

MonStart(role) ==
    CASE role = "increment" -> "i_enter"
      [] role = "waiter"    -> "w_enter"
      [] role = "signaler"  -> "s_enter"

MonEnv ==
    [exit |-> "none", nfail |-> 0, monitor |-> monitor_init,
     counter |-> 0, shared_value |-> 0, wait_count |-> 0, wake_count |-> 0,
     \* history: calls of monitor_signal, returns of pthread_cond_wait that
     \* no signal caused, waits begun, threads blocked at the first signal
     signals |-> 0, spurious |-> 0, waits |-> 0, atSignal |-> {}]

InitMonitor ==
    /\ queues = [q \in {} |-> queue_init(1)]
    /\ hist = [q \in {} |-> NoHist]
    /\ kpc = [t \in MonThreads |-> "none"]
    /\ frame = [t \in MonThreads |-> NoFrame]
    /\ \E roles \in [MonThreads -> Roles], k \in 1..MaxRounds :
          /\ th = [t \in MonThreads |->
                     [role |-> roles[t], iterations |-> k, i |-> 0, tmp |-> 0]]
          /\ pc = [t \in MonThreads |-> MonStart(roles[t])]
    /\ env = MonEnv

\* t's call of monitor_enter returns; t goes on at `to`.
Entered(t, to) ==
    /\ MonitorFree(env.monitor)
    /\ env' = [env EXCEPT !.monitor = monitor_enter(@, t)]
    /\ pc' = [pc EXCEPT ![t] = to]
    /\ UNCHANGED <<queues, kpc, frame, th, hist>>

\* increment_thread, lines 327-337.
i_enter(t) ==
    /\ pc[t] = "i_enter"
    /\ Entered(t, "i_read")

\* (*data->counter)++ reads the counter ...
i_read(t) ==
    /\ pc[t] = "i_read"
    /\ th' = [th EXCEPT ![t].tmp = env.counter]
    /\ pc' = [pc EXCEPT ![t] = "i_write"]
    /\ UNCHANGED <<queues, kpc, frame, hist, env>>

\* ... and stores the value read plus one.
i_write(t) ==
    /\ pc[t] = "i_write"
    /\ env' = [env EXCEPT !.counter = th[t].tmp + 1]
    /\ pc' = [pc EXCEPT ![t] = "i_exit"]
    /\ UNCHANGED <<queues, kpc, frame, th, hist>>

\* monitor_exit and the loop test i < data->iterations.
i_exit(t) ==
    /\ pc[t] = "i_exit"
    /\ env' = [env EXCEPT !.monitor = monitor_exit(@)]
    /\ th' = [th EXCEPT ![t].i = @ + 1]
    /\ pc' = [pc EXCEPT ![t] = IF th[t].i + 1 < th[t].iterations
                                 THEN "i_enter" ELSE "exited"]
    /\ UNCHANGED <<queues, kpc, frame, hist>>

IncrementStep(t) == i_enter(t) \/ i_read(t) \/ i_write(t) \/ i_exit(t)

\* waiter_thread, lines 41-66.
w_enter(t) ==
    /\ pc[t] = "w_enter"
    /\ Entered(t, "w_count")

w_count(t) ==
    /\ pc[t] = "w_count"
    /\ env' = [env EXCEPT !.wait_count = @ + 1]
    /\ pc' = [pc EXCEPT ![t] = "w_test"]
    /\ UNCHANGED <<queues, kpc, frame, th, hist>>

\* while (*data->shared_value == 0) monitor_wait(data->monitor);
w_test(t) ==
    /\ pc[t] = "w_test"
    /\ IF env.shared_value = 0
       THEN /\ env' = [env EXCEPT !.monitor = monitor_wait(@, t),
                                  !.waits = @ + 1]
            /\ pc' = [pc EXCEPT ![t] = "w_parked"]
       ELSE /\ pc' = [pc EXCEPT ![t] = "w_wake"]
            /\ UNCHANGED env
    /\ UNCHANGED <<queues, kpc, frame, th, hist>>

\* pthread_cond_wait returns with the mutex held.
w_woken(t) ==
    /\ pc[t] = "w_woken"
    /\ Entered(t, "w_test")

w_wake(t) ==
    /\ pc[t] = "w_wake"
    /\ env' = [env EXCEPT !.wake_count = @ + 1]
    /\ pc' = [pc EXCEPT ![t] = "w_exit"]
    /\ UNCHANGED <<queues, kpc, frame, th, hist>>

w_exit(t) ==
    /\ pc[t] = "w_exit"
    /\ env' = [env EXCEPT !.monitor = monitor_exit(@)]
    /\ pc' = [pc EXCEPT ![t] = "exited"]
    /\ UNCHANGED <<queues, kpc, frame, th, hist>>

\* pthread_cond_wait may return without a signal; the runs looked at have
\* at most MaxSpurious such returns.
mon_spurious(t) ==
    /\ pc[t] = "w_parked"
    /\ t \in env.monitor.condition
    /\ env.spurious < MaxSpurious
    /\ env' = [env EXCEPT !.monitor.condition = @ \ {t},
                          !.spurious = @ + 1]
    /\ pc' = [pc EXCEPT ![t] = "w_woken"]
    /\ UNCHANGED <<queues, kpc, frame, th, hist>>

WaiterStep(t) ==
    \/ w_enter(t) \/ w_count(t) \/ w_test(t) \/ w_woken(t)
    \/ w_wake(t) \/ w_exit(t) \/ mon_spurious(t)

\* The signalling rounds of test_monitor_signal_fairness, lines 292-305:
\* the first sets shared_value, the later ones only signal.
s_enter(t) ==
    /\ pc[t] = "s_enter"
    /\ Entered(t, IF th[t].i = 0 THEN "s_set" ELSE "s_signal")

s_set(t) ==
    /\ pc[t] = "s_set"
    /\ env' = [env EXCEPT !.shared_value = 1]
    /\ pc' = [pc EXCEPT ![t] = "s_signal"]
    /\ UNCHANGED <<queues, kpc, frame, th, hist>>

s_signal(t) ==
    /\ pc[t] = "s_signal"
    /\ \E M \in monitor_signal(env.monitor) :
          /\ env' = [env EXCEPT
                       !.monitor = M,
                       !.signals = @ + 1,
                       !.atSignal = IF env.signals = 0
                                    THEN env.monitor.condition
                                    ELSE @]
          /\ pc' = [u \in MonThreads |->
                      IF u = t THEN "s_exit"
                      ELSE IF u \in env.monitor.condition \ M.condition
                           THEN "w_woken" ELSE pc[u]]
    /\ UNCHANGED <<queues, kpc, frame, th, hist>>

s_exit(t) ==
    /\ pc[t] = "s_exit"
    /\ env' = [env EXCEPT !.monitor = monitor_exit(@)]
    /\ th' = [th EXCEPT ![t].i = @ + 1]
    /\ pc' = [pc EXCEPT ![t] = IF th[t].i + 1 < MaxSignals
                                 THEN "s_enter" ELSE "exited"]
    /\ UNCHANGED <<queues, kpc, frame, hist>>

SignalerStep(t) == s_enter(t) \/ s_set(t) \/ s_signal(t) \/ s_exit(t)

NextMonitor ==
    \E t \in MonThreads : IncrementStep(t) \/ WaiterStep(t) \/ SignalerStep(t)

SpecMonitor == InitMonitor /\ [][NextMonitor]_vars

(***************************************************************************)
(* Properties of the monitor.                                              *)
(***************************************************************************)
\* t is between a monitor_enter that returned and its monitor_exit, and not
\* inside monitor_wait.
InMonitor(t) ==
    pc[t] \in {"i_read", "i_write", "i_exit", "w_count", "w_test", "w_wake",
               "w_exit", "s_set", "s_signal", "s_exit"}

WithRole(role) == {t \in MonThreads : th[t].role = role}

\* C28: at most one thread is inside the monitor, the one that holds its
\* mutex, however many are blocked in monitor_wait; and when the T
\* incrementing threads have done their k rounds each the counter is T*k.
C28_MutualExclusion ==
    /\ Cardinality({t \in MonThreads : InMonitor(t)}) <= 1
    /\ \A t \in MonThreads : InMonitor(t) <=> env.monitor.mutex = t
    /\ (\A t \in WithRole("increment") : pc[t] = "exited") =>
           \E k \in 1..MaxRounds :
               /\ \A t \in WithRole("increment") : th[t].iterations = k
               /\ env.counter = Cardinality(WithRole("increment")) * k

\* Two threads have done MaxRounds rounds each while a third is blocked in
\* monitor_wait.
C28_Witness ==
    /\ Cardinality(WithRole("increment")) = 2
    /\ \A t \in WithRole("increment") :
           pc[t] = "exited" /\ th[t].iterations = MaxRounds
    /\ env.counter = 2 * MaxRounds
    /\ \E t \in WithRole("waiter") : pc[t] = "w_parked"

\* The threads that a step takes out of pthread_cond_wait's blocked set.
WokenByStep == env.monitor.condition \ env'.monitor.condition

\* The threads blocked at the first monitor_signal that have been blocked
\* ever since.
StillBlocked ==
    {t \in env.atSignal : pc[t] = "w_parked" /\ t \in env.monitor.condition}

ctl_push ==
    LET item == InputLine(th[Main].i + 1) IN
    /\ MainAt("ctl")
    /\ th[Main].i < MaxStopItems
    /\ Call(Main, "push", 0, item)
    /\ th' = [th EXCEPT ![Main].i = @ + 1,
                        ![Main].after =
                            IF env.ctx[0].stop_requested # 0
                            THEN Append(@, item) ELSE @]
    /\ pc' = [pc EXCEPT ![Main] = "ctl_push"]
    /\ UNCHANGED <<queues, hist, env>>

ctl_pushed ==
    /\ MainAt("ctl_push")
    /\ kpc[Main] = "done"
    /\ pc' = [pc EXCEPT ![Main] = "ctl"]
    /\ kpc' = [kpc EXCEPT ![Main] = "none"]
    /\ UNCHANGED <<queues, frame, th, hist, env>>

CallerStep ==
    \/ ctl_push \/ ctl_pushed \/ ctl_request_stop \/ ctl_destroy \/ ctl_join

InitStop ==
    \E name \in PluginNames, capacity \in 1..MaxPipeCap :
        /\ queues = [q \in 0..1 |-> queue_init(capacity)]
        /\ hist = [q \in 0..1 |-> NoHist]
        /\ kpc = [t \in PipeThreads |-> "none"]
        /\ frame = [t \in PipeThreads |-> NoFrame]
        /\ pc = [t \in PipeThreads |->
                   CASE t = StageThread(0) -> "w_loop"
                     [] t = Writer -> "o_pop"
                     [] t = Main -> "ctl"
                     [] OTHER -> "unused"]
        /\ th = [t \in PipeThreads |->
                   IF t = StageThread(0) THEN WorkerLocals(name, 0, 1)
                   ELSE IF t = Main THEN [i |-> 0, after |-> <<>>]
                   ELSE [i |-> 0, freed |-> <<>>]]
        /\ env = [exit |-> "running", argv |-> <<name>>, N |-> 1,
                  ctx |-> [i \in {0} |-> [NewCtx EXCEPT !.created = TRUE]],
                  lines |-> <<>>, tail |-> "eof", stdin |-> <<>>,
                  stdout |-> <<>>, joined |-> {}, destroyed |-> {},
                  leftover |-> 0, released |-> <<>>, nfail |-> 0,
              atExit |-> <<>>]

NextStop ==
    \/ CallerStep
    \/ WriterStep
    \/ WorkerStep(StageThread(0))
    \/ \E t \in PipeThreads : QueueStep(t) \/ spurious_wakeup(t)

SpecStop == InitStop /\ [][NextStop]_vars

\* What the stage can make of the strings handed to its input queue after
\* plugin_request_stop returned.
LateResults ==
    UNION {TransformResults(th[StageThread(0)].name, x) :
              x \in Range(th[Main].after)} \ {NULL}

\* C30: nothing made of a string that was pushed to the input queue after
\* plugin_request_stop returned is handed to queue_push by the worker,
\* enqueued on the output queue or written.
C30_NothingAfterStop ==
    /\ Range(hist[1].pushed) \cap LateResults = {}
    /\ Range(env.stdout) \cap LateResults = {}
    /\ InCall(StageThread(0), "push") =>
           frame[StageThread(0)].str \notin LateResults

\* A string pushed before the stop request went through the stage; one
\* pushed after it was popped by the worker, which then returned.
C30_Witness ==
    /\ th[Main].after # <<>>
    /\ Range(th[Main].after) \cap Range(hist[0].popped) # {}
    /\ hist[1].pushed # <<>>
    /\ th[StageThread(0)].ndiscarded > 0
    /\ pc[StageThread(0)] = "exited"

(***************************************************************************)
(* plugins/test_upper.c: process_thread (lines 20-39), run as the one      *)
(* stage between the reader and the writer.                                *)
(***************************************************************************)
\* The loop test, and the call of queue_pop when it passes.
tu_loop(t) ==
    /\ pc[t] = "tu_loop"
    /\ IF env.ctx[StageOf(t)].stop_requested # 0
       THEN /\ pc' = [pc EXCEPT ![t] = "exited"]
            /\ UNCHANGED <<frame, kpc>>
       ELSE /\ Call(t, "pop", th[t].input, NULL)
            /\ pc' = [pc EXCEPT ![t] = "tu_pop"]
    /\ UNCHANGED <<queues, th, hist, env>>

\* queue_pop has returned.  On the end of the input or a stop request the
\* string is freed and the loop left (lines 26-29); otherwise the string is
\* changed to upper case in place and handed to queue_push (lines 30-34).
tu_pop(t) ==
    LET ret == frame[t].ret
        str == frame[t].out_str
    IN
    /\ pc[t] = "tu_pop"
    /\ kpc[t] = "done"
    /\ IF WorkerSeesEnd(ret, env.ctx[StageOf(t)].stop_requested)
       THEN /\ pc' = [pc EXCEPT ![t] = "exited"]
            /\ kpc' = [kpc EXCEPT ![t] = "none"]
            /\ th' = [th EXCEPT
                        ![t].sawEnd = @ \/ ret = QUEUE_SHUTDOWN,
                        ![t].npopped = IF ret = 0 THEN @ + 1 ELSE @,
                        ![t].ndiscarded = IF ret = 0 THEN @ + 1 ELSE @,
                        ![t].freed = Free(@, str, CopyOf(th[t].input, str))]
            /\ UNCHANGED frame
       ELSE IF ret = 0 /\ str # NULL
       THEN /\ Call(t, "push", th[t].output, transform_upper(str))
            /\ th' = [th EXCEPT ![t].npopped = @ + 1, ![t].nhanded = @ + 1,
                                ![t].str = str]
            /\ pc' = [pc EXCEPT ![t] = "tu_push"]
       ELSE /\ pc' = [pc EXCEPT ![t] = "tu_loop"]
            /\ kpc' = [kpc EXCEPT ![t] = "none"]
            /\ UNCHANGED <<frame, th>>
    /\ UNCHANGED <<queues, hist, env>>

\* queue_push has returned; its result is not looked at (lines 34-35).
tu_push(t) ==
    /\ pc[t] = "tu_push"
    /\ kpc[t] = "done"
    /\ th' = [th EXCEPT
                ![t].nrefused = IF frame[t].ret # 0 THEN @ + 1 ELSE @,
                ![t].freed = Free(@, th[t].str, CopyOf(th[t].input, th[t].str)),
                ![t].str = NULL]
    /\ pc' = [pc EXCEPT ![t] = "tu_loop"]
    /\ kpc' = [kpc EXCEPT ![t] = "none"]
    /\ UNCHANGED <<queues, frame, hist, env>>

TestUpperStep(t) == tu_loop(t) \/ tu_pop(t) \/ tu_push(t)

InitTestUpper ==
    \E capacity \in 1..MaxPipeCap, in \in Inputs :
        /\ queues = [q \in 0..1 |-> queue_init(capacity)]
        /\ hist = [q \in 0..1 |-> NoHist]
        /\ kpc = [t \in PipeThreads |-> "none"]
        /\ frame = [t \in PipeThreads |-> NoFrame]
        /\ pc = [t \in PipeThreads |->
                   CASE t = StageThread(0) -> "tu_loop"
                     [] t = Reader -> "r_fgets"
                     [] t = Writer -> "o_pop"
                     [] t = Main -> "ctl"
                     [] OTHER -> "unused"]
        /\ th = [t \in PipeThreads |->
                   IF t = StageThread(0) THEN WorkerLocals("test_upper", 0, 1)
                   ELSE IF t = Reader THEN [handed |-> <<>>]
                   ELSE [i |-> 0, freed |-> <<>>]]
        /\ env = [exit |-> "running", argv |-> <<"test_upper">>, N |-> 1,
                  ctx |-> [i \in {0} |-> [NewCtx EXCEPT !.created = TRUE]],
                  lines |-> InputLines(in.k), tail |-> in.tail,
                  stdin |-> Stream(InputLines(in.k) \o TailLines(in.tail, in.k)),
                  stdout |-> <<>>, joined |-> {}, destroyed |-> {},
                  leftover |-> 0, released |-> <<>>, nfail |-> 0,
              atExit |-> <<>>]

NextTestUpper ==
    \/ ControlStep
    \/ ReaderStep
    \/ WriterStep
    \/ TestUpperStep(StageThread(0))
    \/ \E t \in PipeThreads : QueueStep(t) \/ spurious_wakeup(t)

SpecTestUpper == InitTestUpper /\ [][NextTestUpper]_vars

\* C31: a test_upper worker whose queue_pop returned QUEUE_SHUTDOWN has
\* called queue_shutdown on its output queue when its thread has returned.
C31_TestUpperPropagates ==
    LET t == StageThread(0) IN
    (pc[t] = "exited" /\ th[t].sawEnd) => queues[th[t].output].shutdown # 0

(***************************************************************************)
(* test_plugin_concurrent_processing (test_integration.c lines 838-883):   *)
(* the test's own stage (test_plugin_process, lines 562-585), producer     *)
(* threads on its input queue and the test itself popping its output.      *)
(***************************************************************************)
TpWorker == StageThread(0)
TpProducers == 2..(MaxProducers + 1)
TpMain == MaxProducers + 2
TpThreads == 1..(MaxProducers + 2)

\* The items all producers push together, and a capacity above it.
TpTotal == MaxProducers * MaxProducerItems
TpCapacity == TpTotal + 1

\* snprintf(transformed, sizeof(transformed), "TEST:%s", input), line 577.
TEST_PREFIX == "TEST:"
test_transform(s) == <<TEST_PREFIX>> \o s

\* while (!ctx->stop_requested) queue_pop(...)
tp_loop ==
    /\ pc[TpWorker] = "tp_loop"
    /\ IF env.ctx[0].stop_requested # 0
       THEN /\ pc' = [pc EXCEPT ![TpWorker] = "exited"]
            /\ UNCHANGED <<frame, kpc>>
       ELSE /\ Call(TpWorker, "pop", 0, NULL)
            /\ pc' = [pc EXCEPT ![TpWorker] = "tp_pop"]
    /\ UNCHANGED <<queues, th, hist, env>>

\* Lines 568-581: on the end of the input or a stop request free and break;
\* otherwise push "TEST:" and the string to the output queue.
tp_pop ==
    LET ret == frame[TpWorker].ret
        str == frame[TpWorker].out_str
    IN
    /\ pc[TpWorker] = "tp_pop"
    /\ kpc[TpWorker] = "done"
    /\ IF WorkerSeesEnd(ret, env.ctx[0].stop_requested)
       THEN /\ pc' = [pc EXCEPT ![TpWorker] = "exited"]
            /\ kpc' = [kpc EXCEPT ![TpWorker] = "none"]
            /\ UNCHANGED <<frame, th>>
       ELSE IF ret = 0 /\ str # NULL
       THEN /\ Call(TpWorker, "push", 1, test_transform(str))
            /\ th' = [th EXCEPT ![TpWorker].npopped = @ + 1,
                                ![TpWorker].nhanded = @ + 1]
            /\ pc' = [pc EXCEPT ![TpWorker] = "tp_push"]
       ELSE /\ pc' = [pc EXCEPT ![TpWorker] = "tp_loop"]
            /\ kpc' = [kpc EXCEPT ![TpWorker] = "none"]
            /\ UNCHANGED <<frame, th>>
    /\ UNCHANGED <<queues, hist, env>>

tp_push ==
    /\ pc[TpWorker] = "tp_push"
    /\ kpc[TpWorker] = "done"
    /\ pc' = [pc EXCEPT ![TpWorker] = "tp_loop"]
    /\ kpc' = [kpc EXCEPT ![TpWorker] = "none"]
    /\ UNCHANGED <<queues, frame, th, hist, env>>

\* plugin_producer_thread, lines 824-834: the loop test and queue_push.
pp_loop(t) ==
    /\ pc[t] = "pp_loop"
    /\ IF th[t].i < th[t].count
       THEN /\ Call(t, "push", 0, ItemOf(t, th[t].i + 1))
            /\ pc' = [pc EXCEPT ![t] = "pp_push"]
       ELSE /\ pc' = [pc EXCEPT ![t] = "exited"]
            /\ UNCHANGED <<frame, kpc>>
    /\ UNCHANGED <<queues, th, hist, env>>

\* queue_push has returned; its result is not looked at.
pp_push(t) ==
    /\ pc[t] = "pp_push"
    /\ kpc[t] = "done"
    /\ th' = [th EXCEPT ![t].i = @ + 1]
    /\ pc' = [pc EXCEPT ![t] = "pp_loop"]
    /\ kpc' = [kpc EXCEPT ![t] = "none"]
    /\ UNCHANGED <<queues, frame, hist, env>>

\* Lines 856-866: the producers are joined, then the first queue_pop.
c_join ==
    /\ pc[TpMain] = "c_join"
    /\ \A t \in TpProducers : pc[t] = "exited"
    /\ Call(TpMain, "pop", 1, NULL)
    /\ pc' = [pc EXCEPT ![TpMain] = "c_pop"]
    /\ UNCHANGED <<queues, th, hist, env>>

\* while (queue_pop(&output, &result) == 0) { ... processed++; }
\* The statements after the loop (lines 875-881) follow at "c_after".
c_pop ==
    /\ pc[TpMain] = "c_pop"
    /\ kpc[TpMain] = "done"
    /\ IF frame[TpMain].ret = 0
       THEN /\ th' = [th EXCEPT
                        ![TpMain].received = Append(@, frame[TpMain].out_str)]
            /\ Call(TpMain, "pop", 1, NULL)
            /\ UNCHANGED pc
       ELSE /\ pc' = [pc EXCEPT ![TpMain] = "c_after"]
            /\ kpc' = [kpc EXCEPT ![TpMain] = "none"]
            /\ UNCHANGED <<frame, th>>
    /\ UNCHANGED <<queues, hist, env>>

\* The test's queues hold more than the producers push; smaller ones, on
\* which a push can wait, are looked at as well.
InitConcurrent ==
    /\ \E capacity \in 1..TpCapacity :
          queues = [q \in 0..1 |-> queue_init(capacity)]
    /\ hist = [q \in 0..1 |-> NoHist]
    /\ kpc = [t \in TpThreads |-> "none"]
    /\ frame = [t \in TpThreads |-> NoFrame]
    /\ pc = [t \in TpThreads |->
               IF t = TpWorker THEN "tp_loop"
               ELSE IF t = TpMain THEN "c_join" ELSE "pp_loop"]
    /\ th = [t \in TpThreads |->
               IF t = TpWorker THEN WorkerLocals("test_plugin", 0, 1)
               ELSE IF t = TpMain THEN [received |-> <<>>]
               ELSE [i |-> 0, count |-> MaxProducerItems]]
    /\ env = [exit |-> "running", nfail |-> 0, N |-> 1,
              ctx |-> [i \in {0} |-> [NewCtx EXCEPT !.created = TRUE]]]

NextConcurrent ==
    \/ tp_loop \/ tp_pop \/ tp_push
    \/ \E t \in TpProducers : pp_loop(t) \/ pp_push(t)
    \/ c_join \/ c_pop
    \/ \E t \in TpThreads : PushStep(t) \/ PopStep(t) \/ spurious_wakeup(t)

SpecConcurrent == InitConcurrent /\ [][NextConcurrent]_vars

\* C32: with queues that hold more than the producers push, when the
\* producers have finished, the consumer has received all the items they
\* pushed, and the consumer is blocked in the queue_pop that is to end its
\* loop, with the stage blocked on its empty input, then the output queue
\* has been shut down (and that queue_pop returns non-zero).
C32_ConsumerLoopEnds ==
    (/\ queues[0].capacity > TpTotal
     /\ \A t \in TpProducers : pc[t] = "exited"
     /\ Len(th[TpMain].received) = TpTotal
     /\ kpc[TpMain] = "pop_parked"
     /\ kpc[TpWorker] = "pop_parked"
     /\ queues[0].size = 0
     /\ queues[1].size = 0) => queues[1].shutdown # 0

(***************************************************************************)
(* main_backup.c: main (lines 57-146).  Up to the creation of the two I/O  *)
(* threads it is main of main.c; from the join of the input thread on it   *)
(* shuts every queue down, requests stop, destroys the plugins and only    *)
(* then joins the output thread.                                           *)
(***************************************************************************)
\* Line 110: pthread_join(input_tid).
b_join_input ==
    /\ MainAt("m_join_input")
    /\ pc[Reader] = "exited"
    /\ pc' = [pc EXCEPT ![Main] = "b_shutdown"]
    /\ env' = [env EXCEPT !.joined = @ \cup {Reader}]
    /\ UNCHANGED <<queues, kpc, frame, th, hist>>

\* Lines 113-115, one round: queue_shutdown(&queues[i]) is called ...
b_shutdown ==
    /\ MainAt("b_shutdown")
    /\ Call(Main, "shutdown", th[Main].i, NULL)
    /\ pc' = [pc EXCEPT ![Main] = "b_shutdown_ret"]
    /\ UNCHANGED <<queues, th, hist, env>>

\* ... and has returned.
b_shutdown_ret ==
    /\ MainAt("b_shutdown_ret")
    /\ kpc[Main] = "done"
    /\ kpc' = [kpc EXCEPT ![Main] = "none"]
    /\ NextRound(th[Main].i, env.N + 1, "b_shutdown", "b_request_stop")
    /\ UNCHANGED <<queues, frame, hist, env>>

\* Lines 118-122, one round.
b_request_stop ==
    LET i == th[Main].i IN
    /\ MainAt("b_request_stop")
    /\ env' = plugin_request_stop(i)
    /\ NextRound(i, env.N, "b_request_stop", "b_destroy")
    /\ UNCHANGED <<queues, kpc, frame, hist>>

\* Lines 125-132, one round: plugin_destroy of stage i, in two steps.
b_destroy ==
    LET i == th[Main].i IN
    /\ MainAt("b_destroy")
    /\ plugin_destroy_begin(Main, i)
    /\ pc' = [pc EXCEPT ![Main] = "b_destroy_join"]
    /\ UNCHANGED <<queues, th, hist>>

b_destroy_join ==
    LET i == th[Main].i IN
    /\ MainAt("b_destroy_join")
    /\ plugin_destroy_end(Main, i)
    /\ env' = [env EXCEPT !.ctx[i].joined = TRUE, !.ctx[i].freed = TRUE,
                          !.joined = @ \cup {StageThread(i)}]
    /\ NextRound(i, env.N, "b_destroy", "b_join_output")
    /\ UNCHANGED <<queues, frame, hist>>

\* Line 135: pthread_join(output_tid); the queues are destroyed next
\* (lines 138-140) and main returns 0 (line 145).
b_join_output ==
    /\ MainAt("b_join_output")
    /\ pc[Writer] = "exited"
    /\ pc' = [pc EXCEPT ![Main] = "m_queue_destroy"]
    /\ env' = [env EXCEPT !.joined = @ \cup {Writer}]
    /\ UNCHANGED <<queues, kpc, frame, th, hist>>

BackupMainStep ==
    \/ m_load \/ m_create_input \/ m_create_output
    \/ b_join_input \/ b_shutdown \/ b_shutdown_ret \/ b_request_stop
    \/ b_destroy \/ b_destroy_join \/ b_join_output
    \/ m_queue_destroy \/ m_return

\* The runs looked at: one stage, the last of the chain; lines and <END>.
InitBackup == InitPipeFair /\ env.N = 1

NextBackup ==
    \/ BackupMainStep
    \/ ReaderStep
    \/ WriterStep
    \/ \E t \in Stages : WorkerStep(t)
    \/ \E t \in PipeThreads : QueueStep(t) \/ spurious_wakeup(t)

SpecBackup == InitBackup /\ [][NextBackup]_vars

\* C33: in main_backup.c, when standard input is the lines L followed by
\* <END> and no allocation fails, the output thread has written every line
\* of L with the transforms of all stages applied when it has returned.
C33_BackupNoLoss ==
    (env.tail = "end" /\ env.nfail = 0 /\ pc[Writer] = "exited"
                      /\ env.exit = "running") =>
        env.stdout = [k \in 1..Len(env.lines) |->
                        ApplyChain(env.argv, env.lines[k])]

(***************************************************************************)
(* Order of the joins.                                                     *)
(***************************************************************************)
\* C34: main joins the reader first, then the workers in stage order, and
\* the output thread last: a joined worker finds the reader and the workers
\* of the earlier stages joined, and the joined output thread finds the
\* reader and every worker joined.
C34_JoinOrder ==
    /\ \A t \in PipeWorkers :
          t \in env.joined =>
              /\ Reader \in env.joined
              /\ \A u \in PipeWorkers : u < t => u \in env.joined
    /\ Writer \in env.joined =>
          /\ Reader \in env.joined
          /\ PipeWorkers \subseteq env.joined

(***************************************************************************)
(* The strings on the heap of a run of the pipeline.                       *)
(***************************************************************************)
Occurrences(log, x) == Cardinality({k \in DOMAIN log : log[k] = x})

\* The strings a thread has passed to free.
FreedBy(t) == IF "freed" \in DOMAIN th[t] THEN th[t].freed ELSE <<>>

RECURSIVE FreedIn(_, _)
FreedIn(T, x) ==
    IF T = {} THEN 0
    ELSE LET t == CHOOSE u \in T : TRUE
         IN Occurrences(FreedBy(t), x) + FreedIn(T \ {t}, x)

\* How often a string has been passed to free, by a thread or by
\* queue_destroy.
TimesFreed(x) == Occurrences(env.released, x) + FreedIn(DOMAIN th, x)

\* The copies queue_push has made: those enqueued, and those about to be.
Copies ==
    UNION {{CopyOf(q, x) : x \in Range(hist[q].pushed)} : q \in DOMAIN queues}
    \cup {CopyOf(frame[t].queue, frame[t].str_copy) :
            t \in {u \in DOMAIN kpc : kpc[u] = "push_enqueue"}}

\* The strings the transforms have returned.
Results ==
    UNION {IF "made" \in DOMAIN th[t] THEN Range(th[t].made) ELSE {} :
             t \in DOMAIN th}

\* The strings passed to free so far.
FreedStrings ==
    Range(env.released) \cup UNION {Range(FreedBy(t)) : t \in DOMAIN th}

\* The strings a queue or a thread still refers to: those in a ring, the
\* copy queue_push is about to enqueue, the string queue_pop has taken out
\* for its caller, and the two strings of a worker while its queue_push runs.
InUse ==
    UNION {{CopyOf(q, x) : x \in Range(RingItems(queues[q]))} :
             q \in DOMAIN queues}
    \cup {CopyOf(frame[t].queue, frame[t].str_copy) :
            t \in {u \in DOMAIN kpc : kpc[u] = "push_enqueue"}}
    \cup {CopyOf(frame[t].queue, frame[t].out_str) :
            t \in {u \in DOMAIN kpc :
                     /\ frame[u].fn = "pop"
                     /\ kpc[u] \in {"pop_signal", "done"}
                     /\ frame[u].out_str # NULL}}
    \cup UNION {{CopyOf(th[t].input, th[t].str),
                 ResultOf(StageOf(t), frame[t].str)} :
                  t \in {u \in DOMAIN pc : pc[u] = "w_push"}}

\* C35: in a run of the pipeline no string is passed to free twice, only
\* strings that queue_push or a transform allocated are freed, no string a
\* queue or a thread still uses has been freed, after queue_destroy every
\* copy made for that queue has been freed, and when main has returned every
\* string allocated during the run has been freed exactly once.
C35_ItemsFreedOnce ==
    /\ \A x \in FreedStrings : TimesFreed(x) = 1
    /\ FreedStrings \subseteq Copies \cup Results
    /\ InUse \cap FreedStrings = {}
    /\ \A q \in env.destroyed :
          /\ queues[q].size = 0
          /\ \A j \in DOMAIN queues[q].buffer : queues[q].buffer[j] = NULL
          /\ \A x \in Range(hist[q].pushed) : TimesFreed(CopyOf(q, x)) = 1
    /\ env.exit # "running" =>
          \A x \in Copies \cup Results : TimesFreed(x) = 1

\* main has returned 0 after a run in which workers, the writer and
\* queue_destroy have all freed strings.
C35_Witness ==
    /\ env.exit = "returned 0"
    /\ env.released # <<>>
    /\ th[Writer].freed # <<>>
    /\ \E t \in 1..env.N : Len(th[t].freed) >= 2

(***************************************************************************)
(* The ring and the bounded FIFO it stands for.                            *)
(***************************************************************************)
\* The abstract queue: what has been pushed and not yet popped, in push
\* order.
Fifo(q) == SubSeq(hist[q].pushed, Len(hist[q].popped) + 1,
                  Len(hist[q].pushed))

\* The slots of the ring that hold a queued item.
UsedSlots(Q) == {(Q.head + i) % Q.capacity : i \in 0..(Q.size - 1)}

\* C36: whenever the mutex of a queue is not held, head and tail are below
\* the capacity, tail is (head + size) mod capacity, the size slots from head
\* hold the queued items in push order, at most capacity of them, and every
\* other slot is NULL.
C36_RingRefinesFifo ==
    \A q \in DOMAIN queues :
        LET Q == queues[q] IN
        Q.mutex = Unlocked =>
            /\ Q.head \in 0..(Q.capacity - 1)
            /\ Q.tail \in 0..(Q.capacity - 1)
            /\ Q.tail = (Q.head + Q.size) % Q.capacity
            /\ Q.size \in 0..Q.capacity
            /\ RingItems(Q) = Fifo(q)
            /\ \A j \in DOMAIN Q.buffer :
                  (j \notin UsedSlots(Q)) <=> (Q.buffer[j] = NULL)

\* An unlocked queue whose items wrap around the end of the ring.
C36_Witness ==
    /\ queues[0].mutex = Unlocked
    /\ queues[0].size >= 1
    /\ queues[0].head >= 1
    /\ queues[0].head + queues[0].size >= queues[0].capacity
    /\ queues[0].capacity >= 2

(***************************************************************************)
(* Wakeups.                                                                *)
(***************************************************************************)
\* The threads that have been taken off a condition of queue q and have not
\* yet re-acquired the mutex.
WokenAt(q, k) == {t \in DOMAIN kpc : kpc[t] = k /\ frame[t].queue = q}

\* C37: on an open queue whose mutex nobody holds, a producer blocked on
\* not_full means that the queue is full or that a woken producer has yet to
\* run, and a consumer blocked on not_empty means that the queue is empty or
\* that a woken consumer has yet to run.
C37_NoLostWakeup ==
    \A q \in DOMAIN queues :
        LET Q == queues[q] IN
        (Q.mutex = Unlocked /\ Q.shutdown = 0) =>
            /\ Q.not_full # {} =>
                  Q.size = Q.capacity \/ WokenAt(q, "push_woken") # {}
            /\ Q.not_empty # {} =>
                  Q.size = 0 \/ WokenAt(q, "pop_woken") # {}

\* The same without a failed strdup.
C37_WithoutFailure == env.nfail = 0 => C37_NoLostWakeup

(***************************************************************************)
(* plugin_destroy of a stage whose output an output thread pops, or        *)
(* nobody: the caller hands strings to the input queue, may request stop,  *)
(* and calls plugin_destroy (lower.c lines 82-89).                         *)
(***************************************************************************)
InitDestroy ==
    \E name \in PluginNames, capacity \in 1..MaxPipeCap,
       writer \in {"o_pop", "unused"} :
        /\ queues = [q \in 0..1 |-> queue_init(capacity)]
        /\ hist = [q \in 0..1 |-> NoHist]
        /\ kpc = [t \in PipeThreads |-> "none"]
        /\ frame = [t \in PipeThreads |-> NoFrame]
        /\ pc = [t \in PipeThreads |->
                   CASE t = StageThread(0) -> "w_loop"
                     [] t = Writer -> writer
                     [] t = Main -> "ctl"
                     [] OTHER -> "unused"]
        /\ th = [t \in PipeThreads |->
                   IF t = StageThread(0) THEN WorkerLocals(name, 0, 1)
                   ELSE IF t = Main THEN [i |-> 0, after |-> <<>>]
                   ELSE [i |-> 0, freed |-> <<>>]]
        /\ env = [exit |-> "running", argv |-> <<name>>, N |-> 1,
                  ctx |-> [i \in {0} |-> [NewCtx EXCEPT !.created = TRUE]],
                  lines |-> <<>>, tail |-> "eof", stdin |-> <<>>,
                  stdout |-> <<>>, joined |-> {}, destroyed |-> {},
                  leftover |-> 0, released |-> <<>>, nfail |-> 0,
                  atExit |-> <<>>]

NextDestroy ==
    \/ CallerStep
    \/ WriterStep
    \/ WorkerStep(StageThread(0))
    \/ \E t \in PipeThreads : QueueStep(t) \/ spurious_wakeup(t)

SpecDestroy == InitDestroy /\ [][NextDestroy]_vars

\* The worker can take no step that gets it out of queue_push: it is blocked
\* on not_full of its output queue, which is full and open, and no other
\* thread is in or will enter a queue function on that queue.
WorkerBlockedForGood(t) ==
    LET q == th[t].output IN
    /\ kpc[t] = "push_parked"
    /\ frame[t].queue = q
    /\ queues[q].size = queues[q].capacity
    /\ queues[q].shutdown = 0
    /\ \A u \in DOMAIN pc \ {t} :
          \/ pc[u] = "unused"
          \/ u = Main /\ pc[u] = "ctl_join"

\* C38: plugin_destroy never waits in pthread_join for a worker that is
\* blocked for good in queue_push on its full, open output queue.
C38_DestroyReturns ==
    ~ (/\ pc[Main] = "ctl_join"
       /\ kpc[Main] = "done"
       /\ WorkerBlockedForGood(StageThread(0)))

(***************************************************************************)
(* The custom barrier of barrier.h (monitor.h lines 185-232), used by the  *)
(* concurrent tests of tests/test_queue.c.  The barrier is env.barrier;    *)
(* th[t].gen is the local variable gen of barrier_wait, th[t].calls the    *)
(* number of calls of barrier_wait thread t has made and th[t].rets what   *)
(* they returned.  count, waiting and generation are unsigned int; in the  *)
(* runs looked at they stay below MaxBarThreads and MaxGenerations, far    *)
(* from the point where they wrap.                                         *)
(***************************************************************************)
\* barrier_init, lines 193-209, for a count that is not 0.
barrier_init(count) ==
    [mutex |-> Unlocked, cond |-> {}, count |-> count, waiting |-> 0,
     generation |-> 0]

\* A barrier that opens one arrival early.
BarrierFull_Early(B) == B.waiting + 1 >= B.count

\* ++barrier->waiting == barrier->count, line 217, after the increment.
BarrierFull(B) == B.waiting = B.count

\* The threads of the test, and those the barrier was initialised for.
BarThreads == 1..MaxBarThreads

Members == 1..env.barrier.count

InitBarrier ==
    \E n \in 1..MaxBarThreads, r \in 1..MaxGenerations :
        /\ queues = [q \in {} |-> queue_init(1)]
        /\ hist = [q \in {} |-> NoHist]
        /\ kpc = [t \in BarThreads |-> "none"]
        /\ frame = [t \in BarThreads |-> NoFrame]
        /\ pc = [t \in BarThreads |-> IF t <= n THEN "bt_call" ELSE "unused"]
        /\ th = [t \in BarThreads |-> [rounds |-> r, calls |-> 0, gen |-> 0,
                                       rets |-> <<>>]]
        /\ env = [exit |-> "none", nfail |-> 0, barrier |-> barrier_init(n),
                  spurious |-> 0]

\* A thread calls barrier_wait, for the next time, or returns when it has
\* made all its calls.
bt_call(t) ==
    /\ pc[t] = "bt_call"
    /\ IF th[t].calls < th[t].rounds
       THEN /\ th' = [th EXCEPT ![t].calls = @ + 1]
            /\ pc' = [pc EXCEPT ![t] = "bw_lock"]
       ELSE /\ pc' = [pc EXCEPT ![t] = "exited"]
            /\ UNCHANGED th
    /\ UNCHANGED <<queues, kpc, frame, hist, env>>

\* Lines 213-215: pthread_mutex_lock, gen = barrier->generation.
bw_lock(t) ==
    /\ pc[t] = "bw_lock"
    /\ env.barrier.mutex = Unlocked
    /\ env' = [env EXCEPT !.barrier.mutex = t]
    /\ th' = [th EXCEPT ![t].gen = env.barrier.generation]
    /\ pc' = [pc EXCEPT ![t] = "bw_arrive"]
    /\ UNCHANGED <<queues, kpc, frame, hist>>

\* Lines 217-223: the arrival is counted; the last thread to arrive starts
\* the next generation, wakes every blocked thread and returns 1.
bw_arrive(t) ==
    LET B == [env.barrier EXCEPT !.waiting = @ + 1] IN
    /\ pc[t] = "bw_arrive"
    /\ IF BarrierFull(B)
       THEN /\ env' = [env EXCEPT !.barrier =
                         [B EXCEPT !.generation = @ + 1,
                                   !.waiting = 0,
                                   !.cond = {},
                                   !.mutex = Unlocked]]
            /\ pc' = [u \in DOMAIN pc |->
                        IF u = t THEN "bt_call"
                        ELSE IF u \in B.cond THEN "bw_woken" ELSE pc[u]]
            /\ th' = [th EXCEPT ![t].rets = Append(@, 1)]
       ELSE /\ env' = [env EXCEPT !.barrier = B]
            /\ pc' = [pc EXCEPT ![t] = "bw_while"]
            /\ UNCHANGED th
    /\ UNCHANGED <<queues, kpc, frame, hist>>

\* Lines 226-230: while (gen == barrier->generation) pthread_cond_wait;
\* then unlock and return 0.
bw_while(t) ==
    /\ pc[t] = "bw_while"
    /\ IF th[t].gen = env.barrier.generation
       THEN /\ env' = [env EXCEPT !.barrier.mutex = Unlocked,
                                  !.barrier.cond = @ \cup {t}]
            /\ pc' = [pc EXCEPT ![t] = "bw_parked"]
            /\ UNCHANGED th
       ELSE /\ env' = [env EXCEPT !.barrier.mutex = Unlocked]
            /\ pc' = [pc EXCEPT ![t] = "bt_call"]
            /\ th' = [th EXCEPT ![t].rets = Append(@, 0)]
    /\ UNCHANGED <<queues, kpc, frame, hist>>

\* pthread_cond_wait returns with the mutex held.
bw_woken(t) ==
    /\ pc[t] = "bw_woken"
    /\ env.barrier.mutex = Unlocked
    /\ env' = [env EXCEPT !.barrier.mutex = t]
    /\ pc' = [pc EXCEPT ![t] = "bw_while"]
    /\ UNCHANGED <<queues, kpc, frame, th, hist>>

\* pthread_cond_wait may return without a broadcast; the runs looked at
\* have at most MaxSpurious such returns.
bw_spurious(t) ==
    /\ pc[t] = "bw_parked"
    /\ t \in env.barrier.cond
    /\ env.spurious < MaxSpurious
    /\ env' = [env EXCEPT !.barrier.cond = @ \ {t}, !.spurious = @ + 1]
    /\ pc' = [pc EXCEPT ![t] = "bw_woken"]
    /\ UNCHANGED <<queues, kpc, frame, th, hist>>

NextBarrier ==
    \E t \in BarThreads :
        \/ bt_call(t) \/ bw_lock(t) \/ bw_arrive(t) \/ bw_while(t)
        \/ bw_woken(t) \/ bw_spurious(t)

SpecBarrier == InitBarrier /\ [][NextBarrier]_vars

\* The threads that have returned from their k-th barrier_wait, and those
\* that have called it.
ReturnedFrom(k) == {t \in Members : Len(th[t].rets) >= k}

CalledFor(k) == {t \in Members : th[t].calls >= k}

\* The threads that have counted their arrival in the generation the
\* barrier is in and are still inside barrier_wait.
Arrived ==
    {t \in Members : /\ pc[t] \in {"bw_while", "bw_parked", "bw_woken"}
                     /\ th[t].gen = env.barrier.generation}

\* C39: for every generation k, no thread has returned from its k-th
\* barrier_wait before all n threads have called it, at most one of them
\* has returned 1 and, when all have returned, exactly one; the threads
\* never all block; a thread inside its k-th call took its gen in
\* generation k - 1, has returned only after the generation changed, and
\* waiting counts the arrivals of the current generation only.
C39_BarrierGenerations ==
    LET n == env.barrier.count
        B == env.barrier
    IN
    /\ \A k \in 1..MaxGenerations + 1 :
          /\ ReturnedFrom(k) # {} => CalledFor(k) = Members
          /\ ReturnedFrom(k) # {} => B.generation >= k
          /\ Cardinality({t \in ReturnedFrom(k) : th[t].rets[k] = 1}) <= 1
          /\ ReturnedFrom(k) = Members =>
                /\ Cardinality({t \in Members : th[t].rets[k] = 1}) = 1
                /\ Cardinality({t \in Members : th[t].rets[k] = 0}) = n - 1
    /\ \A t \in Members :
          pc[t] \in {"bw_arrive", "bw_while", "bw_parked", "bw_woken"} =>
              th[t].gen = th[t].calls - 1
    /\ B.mutex = Unlocked => B.waiting = Cardinality(Arrived)
    /\ ~ (/\ \E t \in Members : pc[t] = "bw_parked"
          /\ \A t \in Members : pc[t] \in {"bw_parked", "exited"})

\* Of three threads one is blocked in its second barrier_wait while another
\* has been woken in its first and has not yet returned from it.
C39_Witness ==
    /\ env.barrier.count = 3
    /\ env.barrier.generation = 1
    /\ \E t \in Members, u \in Members :
          /\ th[t].calls = 2 /\ pc[t] = "bw_parked"
          /\ th[u].calls = 1 /\ pc[u] \in {"bw_woken", "bw_while"}
====
